---- MODULE Spec2Model ----
(***************************************************************************)
(* Model of the risc0 receipt verifier: the verification pipeline of       *)
(* Proof::verify over composite and succinct receipts, for the V1, V2 and  *)
(* V3 verifier contexts.                                                   *)
(*                                                                         *)
(* Digests are symbolic: a hash is the record of what was hashed, so two   *)
(* digests are equal exactly when their preimages are (SHA-256 and the     *)
(* tagged hashes are injective in the model).                              *)
(***************************************************************************)
EXTENDS Integers, Sequences, FiniteSets, TLC

VARIABLES ctx, proof, image_id, journal, pc, result, log, tampers, call, assumptions_list, op

vars == <<ctx, proof, image_id, journal, pc, result, log, tampers, call, assumptions_list, op>>

(***************************************************************************)
(* Bounds of the model.                                                    *)
(***************************************************************************)
\* Longest continuation (number of segments) of a generated composite.
MaxSegments == 3
\* How many times the caller may tamper with the inputs before verifying.
MaxTampers == 2

\* The longest sibling list of a Merkle inclusion proof handed in directly.
MaxDepth == 3

\* How many add and resolve operations are applied to an assumptions list.
MaxListOps == 3

(***************************************************************************)
(* Digests.                                                                *)
(***************************************************************************)
ZERO == [t |-> "zero", d |-> <<>>, u |-> <<>>]

\* An opaque 256-bit value (a Merkle root of memory, a control id, ...).
Opaque(n) == [t |-> "opaque", d |-> <<>>, u |-> <<n>>]

\* SHA-256 of a byte string.
hash_bytes(bytes) == [t |-> "sha256", d |-> <<>>, u |-> bytes]

tagged_struct(tag, down, data) == [t |-> tag, d |-> down, u |-> data]

tagged_list_cons(tag, head, tail) == tagged_struct(tag, <<head, tail>>, <<>>)

RECURSIVE tagged_list_from(_, _, _)
tagged_list_from(tag, list, i) ==
    IF i > Len(list) THEN ZERO
    ELSE tagged_list_cons(tag, list[i], tagged_list_from(tag, list, i + 1))

tagged_list(tag, list) == tagged_list_from(tag, list, 1)

(***************************************************************************)
(* Option<T> and MaybePruned<T>.                                           *)
(***************************************************************************)
None == [some |-> FALSE]
Some(x) == [some |-> TRUE, x |-> x]

Value(x) == [p |-> "Value", v |-> x]
Pruned(dg) == [p |-> "Pruned", dg |-> dg]

IsValue(mp) == mp.p = "Value"

\* MaybePruned<Option<T>>::is_none
is_none(mp) == IF mp.p = "Value" THEN ~mp.v.some ELSE mp.dg = ZERO

(***************************************************************************)
(* ExitCode and its (sys, user) pair.                                      *)
(***************************************************************************)
Halted(n) == [k |-> "Halted", n |-> n]
Paused(n) == [k |-> "Paused", n |-> n]
SystemSplit == [k |-> "SystemSplit", n |-> 0]
SessionLimit == [k |-> "SessionLimit", n |-> 0]

into_pair(e) ==
    CASE e.k = "Halted" -> <<0, e.n>>
      [] e.k = "Paused" -> <<1, e.n>>
      [] e.k = "SystemSplit" -> <<2, 0>>
      [] OTHER -> <<2, 2>>

\* ExitCode::from_pair: None for a pair that encodes no exit code.
from_pair(sys, user) ==
    CASE sys = 0 -> Some(Halted(user))
      [] sys = 1 -> Some(Paused(user))
      [] sys = 2 /\ user = 0 -> Some(SystemSplit)
      [] sys = 2 /\ user = 2 -> Some(SessionLimit)
      [] OTHER -> None

(***************************************************************************)
(* The claim model and its digests.                                        *)
(***************************************************************************)
SystemState(pcv, root) == [pc |-> pcv, merkle_root |-> root]

SystemStateDigest(s) == tagged_struct("risc0.SystemState", <<s.merkle_root>>, <<s.pc>>)

Assumption(claim, control_root) == [claim |-> claim, control_root |-> control_root]

AssumptionDigest(a) == tagged_struct("risc0.Assumption", <<a.claim, a.control_root>>, <<>>)

\* MaybePruned<T>::digest, for each T: the value's digest, or the stored one.
MaybePrunedAssumptionDigest(mp) == IF mp.p = "Value" THEN AssumptionDigest(mp.v) ELSE mp.dg

AssumptionsDigest(list) ==
    tagged_list("risc0.Assumptions",
                [i \in 1..Len(list) |-> MaybePrunedAssumptionDigest(list[i])])

MaybePrunedAssumptionsDigest(mp) == IF mp.p = "Value" THEN AssumptionsDigest(mp.v) ELSE mp.dg

\* is_empty that takes every pruned list for a non-empty one.
AssumptionsIsEmpty_value_only(mp) == IF mp.p = "Value" THEN mp.v = <<>> ELSE FALSE

\* MaybePruned<Assumptions>::is_empty
AssumptionsIsEmpty(mp) == IF mp.p = "Value" THEN mp.v = <<>> ELSE mp.dg = ZERO

\* The outcome of an operation on an assumptions list: how it returned and
\* the list it left.
Mutated(res, list) == [res |-> res, list |-> list]

\* Assumptions::add
Assumptions_add(list, assumption) == <<assumption>> \o list

\* A resolve that takes the head off before it compares its digest.
Assumptions_resolve_split_first(list, resolved) ==
    IF list = <<>> THEN Mutated("cannot resolve assumption from empty list", list)
    ELSE IF MaybePrunedAssumptionDigest(list[1]) # resolved
    THEN Mutated("resolved assumption is not equal to the head of the list",
                 SubSeq(list, 2, Len(list)))
    ELSE Mutated("Ok", SubSeq(list, 2, Len(list)))

\* Assumptions::resolve
Assumptions_resolve(list, resolved) ==
    IF list = <<>> THEN Mutated("cannot resolve assumption from empty list", list)
    ELSE IF MaybePrunedAssumptionDigest(list[1]) # resolved
    THEN Mutated("resolved assumption is not equal to the head of the list", list)
    ELSE Mutated("Ok", SubSeq(list, 2, Len(list)))

\* MaybePruned<Assumptions>::add
MaybePrunedAssumptions_add(mp, assumption) ==
    IF mp.p = "Value" THEN [p |-> "Value", v |-> Assumptions_add(mp.v, assumption)]
    ELSE [p |-> "Pruned",
          dg |-> tagged_list_cons("risc0.Assumptions",
                                  MaybePrunedAssumptionDigest(assumption), mp.dg)]

\* MaybePruned<Assumptions>::resolve
MaybePrunedAssumptions_resolve(mp, resolved, tail) ==
    IF mp.p = "Value"
    THEN Mutated(Assumptions_resolve(mp.v, resolved).res,
                  [p |-> "Value", v |-> Assumptions_resolve(mp.v, resolved).list])
    ELSE IF tagged_list_cons("risc0.Assumptions", resolved, tail) # mp.dg
    THEN Mutated("reconstructed list digest does not match", mp)
    ELSE Mutated("Ok", [p |-> "Pruned", dg |-> tail])

MaybePrunedSystemStateDigest(mp) == IF mp.p = "Value" THEN SystemStateDigest(mp.v) ELSE mp.dg

MaybePrunedBytesDigest(mp) == IF mp.p = "Value" THEN hash_bytes(mp.v) ELSE mp.dg

Output(jrn, assumptions) == [journal |-> jrn, assumptions |-> assumptions]

OutputDigest(o) ==
    tagged_struct("risc0.Output",
                  << MaybePrunedBytesDigest(o.journal),
                     MaybePrunedAssumptionsDigest(o.assumptions) >>,
                  <<>>)

\* Option<T>::digest: ZERO for None.  Input is uninhabited, so an input is
\* Value(None) or a pruned digest.
OptionOutputDigest(opt) == IF opt.some THEN OutputDigest(opt.x) ELSE ZERO

MaybePrunedOutputDigest(mp) == IF mp.p = "Value" THEN OptionOutputDigest(mp.v) ELSE mp.dg

MaybePrunedInputDigest(mp) == IF mp.p = "Value" THEN ZERO ELSE mp.dg

ReceiptClaim(pre, post, exit_code, input, output) ==
    [pre |-> pre, post |-> post, exit_code |-> exit_code, input |-> input, output |-> output]

ReceiptClaimDigest(c) ==
    tagged_struct("risc0.ReceiptClaim",
                  << MaybePrunedInputDigest(c.input),
                     MaybePrunedSystemStateDigest(c.pre),
                     MaybePrunedSystemStateDigest(c.post),
                     MaybePrunedOutputDigest(c.output) >>,
                  into_pair(c.exit_code))

MaybePrunedReceiptClaimDigest(mp) == IF mp.p = "Value" THEN ReceiptClaimDigest(mp.v) ELSE mp.dg

\* ReceiptClaim::ok(image_id, journal)
ReceiptClaim_ok(img, jrn) ==
    ReceiptClaim(Pruned(img),
                 Value(SystemState(0, ZERO)),
                 Halted(0),
                 Value(None),
                 Value(Some(Output(jrn, Pruned(ZERO)))))

(***************************************************************************)
(* Hash suites.  A hash function is its algorithm and, for Poseidon2, the  *)
(* mixer it permutes with: "builtin" is the library's own permutation,     *)
(* "Loc" a faithful external implementation, "Fake" a wrong one.           *)
(***************************************************************************)
HashNames == <<"poseidon2", "sha-256", "blake2b">>

Mixers == {"builtin", "Loc", "Fake"}

HashFn(algo, mix) == [algo |-> algo, mix |-> mix]

HashSuite(name, hashfn, rng) == [name |-> name, hashfn |-> hashfn, rng |-> rng]

\* Poseidon2Impl::new(mixer)
Poseidon2Impl_new(mix) == HashFn("poseidon2", mix)

\* The permutation a mixer computes: the faithful ones agree, "Fake" does not.
MixNum(mix) == IF mix = "Fake" THEN 1 ELSE 0

AlgoNum(algo) ==
    CASE algo = "poseidon2" -> 0
      [] algo = "sha-256" -> 1
      [] algo = "blake2b" -> 2
      [] OTHER -> 3

CELLS_RATE == 16
DIGEST_WORDS == 8

\* Poseidon2Impl::unpadded_hash over n elements, as the permutations it
\* applies: every full chunk of CELLS_RATE elements is mixed by the library
\* permutation, a trailing partial chunk (or the empty input) by the injected
\* mixer.
unpadded_hash(mix, n) ==
    [i \in 1..(n \div CELLS_RATE) |-> MixNum("builtin")]
    \o (IF n % CELLS_RATE # 0 \/ n = 0 THEN <<MixNum(mix)>> ELSE <<>>)

\* HashFn::hash_pair: both digests, DIGEST_WORDS * 2 elements, through the sponge.
hash_pair(hashfn, a, b) ==
    [t |-> "hash_pair", d |-> <<a, b>>,
     u |-> <<AlgoNum(hashfn.algo)>> \o
           (IF hashfn.algo = "poseidon2" THEN unpadded_hash(hashfn.mix, DIGEST_WORDS * 2)
            ELSE <<>>)]

\* HashFn::hash_elem_slice over a slice of n elements (the elements elided).
hash_elem_slice(hashfn, n) ==
    <<AlgoNum(hashfn.algo)>> \o
    (IF hashfn.algo = "poseidon2" THEN unpadded_hash(hashfn.mix, n) ELSE <<>>)

default_hash_suites ==
    [n \in {"blake2b", "poseidon2", "sha-256"} |->
        HashSuite(n, HashFn(n, IF n = "poseidon2" THEN "builtin" ELSE "none"), n)]

\* VerifierParameters::suite(hashfn): the suite registered under the name.
suite(c, hashfn) == IF hashfn \in DOMAIN c.suites THEN Some(c.suites[hashfn]) ELSE None

(***************************************************************************)
(* MerkleProof                                                             *)
(***************************************************************************)
MerkleProof(index, digests) == [index |-> index, digests |-> digests]

\* The fold that looks at the lowest bit of the index at every step.
RECURSIVE MerkleRootFrom_unshifted(_, _, _, _, _)
MerkleRootFrom_unshifted(digests, i, cur, cur_index, hashfn) ==
    IF i > Len(digests) THEN cur
    ELSE MerkleRootFrom_unshifted(digests, i + 1,
                                  IF cur_index % 2 = 0
                                  THEN hash_pair(hashfn, cur, digests[i])
                                  ELSE hash_pair(hashfn, digests[i], cur),
                                  cur_index, hashfn)

RECURSIVE MerkleRootFrom(_, _, _, _, _)
MerkleRootFrom(digests, i, cur, cur_index, hashfn) ==
    IF i > Len(digests) THEN cur
    ELSE MerkleRootFrom(digests, i + 1,
                        IF cur_index % 2 = 0
                        THEN hash_pair(hashfn, cur, digests[i])
                        ELSE hash_pair(hashfn, digests[i], cur),
                        cur_index \div 2, hashfn)

\* A root that gives the zero digest for an index beyond the leaves of a
\* tree of the path's depth.
MerkleProof_root_in_range(mp, leaf, hashfn) ==
    IF mp.index >= 2^Len(mp.digests) THEN ZERO
    ELSE MerkleRootFrom(mp.digests, 1, leaf, mp.index, hashfn)

\* MerkleProof::root
MerkleProof_root(mp, leaf, hashfn) == MerkleRootFrom(mp.digests, 1, leaf, mp.index, hashfn)

\* MerkleProof::verify
MerkleProof_verify(mp, leaf, root, hashfn) == MerkleProof_root(mp, leaf, hashfn) = root

(***************************************************************************)
(* Versions, circuits and verifier parameters.                             *)
(***************************************************************************)
Versions == {"v1_0", "v1_1", "v1_2", "v2_0", "v2_1", "v2_2", "v3_0"}

Family(ver) ==
    CASE ver \in {"v1_0", "v1_1", "v1_2"} -> "V1"
      [] ver \in {"v2_0", "v2_1", "v2_2"} -> "V2"
      [] OTHER -> "V3"

VerNum(ver) ==
    CASE ver = "v1_0" -> 10 [] ver = "v1_1" -> 11 [] ver = "v1_2" -> 12
      [] ver = "v2_0" -> 20 [] ver = "v2_1" -> 21 [] ver = "v2_2" -> 22
      [] OTHER -> 30

\* The rv32im circuit and the recursion circuit of a risc0 release.
CIRCUIT(ver) == [kind |-> "rv32im", ver |-> ver]
RECURSIVE_CIRCUIT(ver) == [kind |-> "recursion", ver |-> ver]

PROOF_SYSTEM_INFO == "RISC0_STARK:v1__"

MIN_CYCLES_PO2 == 13
MAX_CYCLES_PO2 == 24
DEFAULT_MAX_PO2 == 21

\* The table of rv32im control ids a release ships: 1.1 and 1.2 share theirs.
ControlIdTable(ver) == IF ver = "v1_2" THEN VerNum("v1_1") ELSE VerNum(ver)

\* circuit::<ver>::control_id(hash_name, po2): the control id of the rv32im
\* program of 2^po2 cycles, None outside the supported range or hash names.
control_id(ver, hash_name, po2) ==
    IF po2 < MIN_CYCLES_PO2 \/ po2 > MAX_CYCLES_PO2 THEN None
    ELSE IF hash_name \notin {"poseidon2", "sha-256", "blake2b"} THEN None
    ELSE Some([t |-> "control_id", d |-> <<>>,
               u |-> <<ControlIdTable(ver), AlgoNum(hash_name), po2>>])

\* A resolver: the control id table of a release, without the entries of
\* the (hash_name, po2) pairs in unknown.
Resolver(ver, unknown) == [ver |-> ver, unknown |-> unknown]

\* resolver(hash_name, po2)
Resolve(resolver, hash_name, po2) ==
    IF <<hash_name, po2>> \in resolver.unknown THEN None
    ELSE control_id(resolver.ver, hash_name, po2)

\* An iteration that skips the po2 the resolver does not know instead of
\* stopping at the first of them.
RECURSIVE control_ids_from_filter(_, _, _, _)
control_ids_from_filter(resolver, hash_name, po2, po2_max) ==
    IF po2 > po2_max \/ po2 > MAX_CYCLES_PO2 THEN {}
    ELSE (IF Resolve(resolver, hash_name, po2).some
          THEN {Resolve(resolver, hash_name, po2).x} ELSE {})
         \cup control_ids_from_filter(resolver, hash_name, po2 + 1, po2_max)

RECURSIVE control_ids_from(_, _, _, _)
control_ids_from(resolver, hash_name, po2, po2_max) ==
    IF po2 > po2_max \/ ~Resolve(resolver, hash_name, po2).some THEN {}
    ELSE {Resolve(resolver, hash_name, po2).x}
         \cup control_ids_from(resolver, hash_name, po2 + 1, po2_max)

\* control_ids(resolver, hash_name, po2_max): the ids of MIN_CYCLES_PO2..po2_max,
\* cut at the first po2 the resolver does not know.
control_ids(resolver, hash_name, po2_max) ==
    control_ids_from(resolver, hash_name, MIN_CYCLES_PO2, po2_max)

SegmentReceiptVerifierParameters(cids, psi, ci) ==
    [control_ids |-> cids, proof_system_info |-> psi, circuit_info |-> ci]

from_max_po2(resolver, max_po2, psi, ci) ==
    SegmentReceiptVerifierParameters(
        UNION {control_ids(resolver, HashNames[i], max_po2) : i \in 1..Len(HashNames)}, psi, ci)

\* CircuitImpl::CIRCUIT_INFO of the rv32im circuit of each release.
SEGMENT_CIRCUIT_INFO(ver) ==
    CASE Family(ver) = "V1" -> "RV32IM:rev1v1___"
      [] Family(ver) = "V2" -> "RV32IM:v2_______"
      [] OTHER -> "RV32IM:v3_______"

RECURSION_CIRCUIT_INFO(ver) == "RECURSION:rev1v1"

\* SegmentReceiptVerifierParameters::v1_0() .. and the later releases.
SegmentParams(ver) ==
    IF ver = "v1_0"
    THEN SegmentReceiptVerifierParameters(
             UNION {control_ids(Resolver(ver, {}), HashNames[i], MAX_CYCLES_PO2) :
                       i \in 1..Len(HashNames)},
             PROOF_SYSTEM_INFO, SEGMENT_CIRCUIT_INFO(ver))
    ELSE from_max_po2(Resolver(ver, {}), DEFAULT_MAX_PO2, PROOF_SYSTEM_INFO,
                      SEGMENT_CIRCUIT_INFO(ver))

(***************************************************************************)
(* Recursion programs: their control ids and the allowed control root.     *)
(***************************************************************************)
RecursionControlId(ver, j) ==
    [t |-> "recursion_control_id", d |-> <<>>, u |-> <<VerNum(ver), j>>]

\* The library's own Poseidon2 hash function.
Poseidon2Builtin == HashFn("poseidon2", "builtin")

\* control_id::ALLOWED_CONTROL_ROOT: the Poseidon2 Merkle root over the
\* control ids of the allowed recursion programs.
ALLOWED_CONTROL_ROOT(ver) ==
    hash_pair(Poseidon2Builtin,
              hash_pair(Poseidon2Builtin, RecursionControlId(ver, 0), RecursionControlId(ver, 1)),
              hash_pair(Poseidon2Builtin, RecursionControlId(ver, 2), RecursionControlId(ver, 3)))

\* The inclusion proof of recursion program j under ALLOWED_CONTROL_ROOT.
ControlInclusionProof(ver, j) ==
    MerkleProof(j,
        << RecursionControlId(ver, IF j % 2 = 0 THEN j + 1 ELSE j - 1),
           IF j < 2
           THEN hash_pair(Poseidon2Builtin, RecursionControlId(ver, 2), RecursionControlId(ver, 3))
           ELSE hash_pair(Poseidon2Builtin, RecursionControlId(ver, 0), RecursionControlId(ver, 1)) >>)

SuccinctReceiptVerifierParameters(root, inner, psi, ci) ==
    [control_root |-> root, inner_control_root |-> inner,
     proof_system_info |-> psi, circuit_info |-> ci]

\* SuccinctReceiptVerifierParameters::v1_0() .. v2_2()
SuccinctParams(ver) ==
    SuccinctReceiptVerifierParameters(ALLOWED_CONTROL_ROOT(ver), None,
                                      PROOF_SYSTEM_INFO, RECURSION_CIRCUIT_INFO(ver))

(***************************************************************************)
(* Verifier contexts.                                                      *)
(***************************************************************************)
Context(family, circuit, recursive_circuit, suites, segp, succp) ==
    [family |-> family, circuit |-> circuit, recursive_circuit |-> recursive_circuit,
     suites |-> suites,
     segment_verifier_parameters |-> segp,
     succinct_verifier_parameters |-> succp]

\* V1::empty / V2::empty / V3::empty: no suites, no parameters.
empty(family, circuit, recursive_circuit) ==
    Context(family, circuit, recursive_circuit, [n \in {} |-> None], None, None)

with_suites(c, suites) == [c EXCEPT !.suites = suites]

with_segment_verifier_parameters(c, params) ==
    [c EXCEPT !.segment_verifier_parameters = Some(params)]

with_succinct_verifier_parameters(c, params) ==
    [c EXCEPT !.succinct_verifier_parameters = Some(params)]

\* V1::v1_0() .. V3::v3_0(): the preconfigured context of a release.
NewContext(ver) ==
    with_succinct_verifier_parameters(
        with_segment_verifier_parameters(
            with_suites(empty(Family(ver), CIRCUIT(ver), RECURSIVE_CIRCUIT(ver)),
                        default_hash_suites),
            SegmentParams(ver)),
        SuccinctParams(ver))

segment_circuit_info(c) ==
    CASE c.family = "V1" -> "RV32IM:rev1v1___"
      [] c.family = "V2" -> "RV32IM:v2_______"
      [] OTHER -> "RV32IM:v3_______"

succinct_circuit_info(c) == "RECURSION:rev1v1"

succinct_output_size(c) == 32

segment_seal_offset(c) == IF c.family = "V1" THEN 0 ELSE 1

\* set_poseidon2_mix_impl with insert in place of entry().and_modify(): a
\* whole new suite is put under "poseidon2", whether or not one was there.
set_poseidon2_mix_impl_insert(c, mix) ==
    [c EXCEPT !.suites = [n \in DOMAIN c.suites \cup {"poseidon2"} |->
                             IF n = "poseidon2"
                             THEN HashSuite("poseidon2", Poseidon2Impl_new(mix), "poseidon2")
                             ELSE c.suites[n]]]

\* set_poseidon2_mix_impl: entry("poseidon2").and_modify(|s| s.hashfn = ...)
set_poseidon2_mix_impl(c, mix) ==
    IF "poseidon2" \in DOMAIN c.suites
    THEN [c EXCEPT !.suites["poseidon2"].hashfn = Poseidon2Impl_new(mix)]
    ELSE c

\* The same keeping the segment verifier parameters of the context.
boxed_succinct_verifier_keeps_segment(c, control_root) ==
    with_succinct_verifier_parameters(
        [c EXCEPT !.succinct_verifier_parameters = None],
        SuccinctReceiptVerifierParameters(control_root, None, PROOF_SYSTEM_INFO,
                                          succinct_circuit_info(c)))

\* boxed_succinct_verifier_with_control_root: V1 keeps its own circuits, V2
\* and V3 take the circuits of v2_1 and v3_0.
boxed_succinct_verifier_with_control_root(c, control_root) ==
    with_succinct_verifier_parameters(
        with_suites(
            CASE c.family = "V1" -> empty("V1", c.circuit, c.recursive_circuit)
              [] c.family = "V2" -> empty("V2", CIRCUIT("v2_1"), RECURSIVE_CIRCUIT("v2_1"))
              [] OTHER -> empty("V3", CIRCUIT("v3_0"), RECURSIVE_CIRCUIT("v3_0")),
            c.suites),
        SuccinctReceiptVerifierParameters(control_root, None, PROOF_SYSTEM_INFO,
                                          succinct_circuit_info(c)))

\* VerifierContext::assumption_context: None (keep the context) for a zero
\* control root, else a succinct-only context for that root.
assumption_context(c, assumption) ==
    IF assumption.control_root = ZERO THEN None
    ELSE Some(boxed_succinct_verifier_with_control_root(c, assumption.control_root))

(***************************************************************************)
(* Verification results and the trace of what a verification did.          *)
(***************************************************************************)
Ok == [tag |-> "Ok", a |-> ZERO, b |-> ZERO]

Err(tag) == [tag |-> tag, a |-> ZERO, b |-> ZERO]

ClaimDigestMismatch(expected, received) ==
    [tag |-> "ClaimDigestMismatch", a |-> expected, b |-> received]

ControlVerificationError(cid) == [tag |-> "ControlVerificationError", a |-> cid, b |-> ZERO]

\* An index out of range, or an explicit panic!, aborts the verification.
Panic == Err("Panic")

\* One step a verification took: the STARK engine ran on the seal of segment
\* idx of the receipt at path ("stark"), on a succinct seal ("stark", idx 0),
\* or the verification of the assumption receipt at path began ("assumption").
Event(ev, path, idx) == [ev |-> ev, path |-> path, idx |-> idx]

Ret(res, events) == [res |-> res, log |-> events]

IsOk(r) == r.res.tag = "Ok"

(***************************************************************************)
(* Seals.  A seal is its leading words that are not part of the STARK      *)
(* proof (the version prefix) followed by the proof body; the body records *)
(* the circuit it satisfies, the hash algorithm it was built with, the     *)
(* control id it commits to, the po2 element that follows the circuit      *)
(* output, the circuit output, and whether its algebraic checks pass.  A   *)
(* seal too short to hold the circuit output and the po2 has no body.      *)
(***************************************************************************)
Seal(pre, body) == [pre |-> pre, body |-> body]

SealBody(circuit, hash, cid, po2, out, sound) ==
    [circuit |-> circuit, hash |-> hash, cid |-> cid, po2 |-> po2, out |-> out, sound |-> sound]

\* risc0_circuit_rv32im_v2::RV32IM_SEAL_VERSION and its v4 successor.
RV32IM_SEAL_VERSION(family) == IF family = "V2" THEN 1 ELSE 2

\* What the engine reads as the control id of a seal that does not start
\* where the proof starts.
GarbledControlId == [t |-> "garbled", d |-> <<>>, u |-> <<>>]

\* Lengths of the rows the engine hashes with hash_elem_slice.
EngineRowLengths == {6, 16, 20}

\* The suite recomputes the hashes the prover committed to.
SuiteAgrees(hs, algo) ==
    /\ hs.hashfn.algo = algo
    /\ \A n \in EngineRowLengths :
          hash_elem_slice(hs.hashfn, n) = hash_elem_slice(HashFn(algo, "builtin"), n)

\* The check_code callbacks handed to the engine: the allow-set test of V1
\* segments, the accept-all closure of V2 and V3 segments, and the Merkle
\* inclusion test of succinct receipts.
AllowSetCheck(params) == [kind |-> "allow_set", control_ids |-> params.control_ids]

AcceptAllCheck == [kind |-> "accept_all"]

InclusionCheck(control_inclusion_proof, root, hashfn) ==
    [kind |-> "inclusion", proof |-> control_inclusion_proof, root |-> root, hashfn |-> hashfn]

\* Calling a callback on the control id the engine read from the seal.
check_code(cb, cid) ==
    CASE cb.kind = "allow_set" ->
            IF cid \in cb.control_ids THEN Ok ELSE ControlVerificationError(cid)
      [] cb.kind = "accept_all" -> Ok
      [] OTHER ->
            IF MerkleProof_verify(cb.proof, cid, cb.root, cb.hashfn) THEN Ok
            ELSE ControlVerificationError(cid)

\* risc0_zkp::verify::verify(circuit, suite, seal, check_code)
StarkVerify(circuit, hs, seal, cb) ==
    IF seal.pre = <<>> /\ seal.body = <<>> THEN Err("ReceiptFormatError")
    ELSE IF seal.pre # <<>> \/ seal.body = <<>>
    THEN (IF check_code(cb, GarbledControlId).tag # "Ok"
          THEN check_code(cb, GarbledControlId)
          ELSE Err("InvalidProof"))
    ELSE IF check_code(cb, seal.body[1].cid).tag # "Ok" THEN check_code(cb, seal.body[1].cid)
    ELSE IF /\ seal.body[1].circuit = circuit
            /\ SuiteAgrees(hs, seal.body[1].hash)
            /\ seal.body[1].sound
    THEN Ok
    ELSE Err("InvalidProof")

(***************************************************************************)
(* verify_segment                                                          *)
(***************************************************************************)
\* verify_segment with a callback that does not look at the control id.
V1_verify_segment_any_code(c, hashfn, seal, params, at) ==
    IF ~suite(c, hashfn).some THEN Ret(Err("InvalidHashSuite"), <<>>)
    ELSE Ret(StarkVerify(c.circuit, suite(c, hashfn).x, seal, AcceptAllCheck), <<at>>)

V1_verify_segment(c, hashfn, seal, params, at) ==
    IF ~suite(c, hashfn).some THEN Ret(Err("InvalidHashSuite"), <<>>)
    ELSE Ret(StarkVerify(c.circuit, suite(c, hashfn).x, seal, AllowSetCheck(params)), <<at>>)

V2_verify_segment(c, hashfn, seal, params, at) ==
    IF ~suite(c, hashfn).some THEN Ret(Err("InvalidHashSuite"), <<>>)
    ELSE IF seal.pre = <<>> /\ seal.body = <<>> THEN Ret(Panic, <<>>)
    ELSE IF seal.pre = <<>> \/ seal.pre[1] # RV32IM_SEAL_VERSION(c.family)
    THEN Ret(Err("ReceiptFormatError"), <<>>)
    ELSE Ret(StarkVerify(c.circuit, suite(c, hashfn).x,
                         Seal(Tail(seal.pre), seal.body), AcceptAllCheck), <<at>>)

verify_segment(c, hashfn, seal, params, at) ==
    IF c.family = "V1" THEN V1_verify_segment(c, hashfn, seal, params, at)
    ELSE V2_verify_segment(c, hashfn, seal, params, at)

(***************************************************************************)
(* verify_succinct                                                         *)
(***************************************************************************)
verify_succinct(c, hashfn, seal, control_inclusion_proof, params, at) ==
    IF ~suite(c, hashfn).some THEN Ret(Err("InvalidHashSuite"), <<>>)
    ELSE Ret(StarkVerify(c.recursive_circuit, suite(c, hashfn).x, seal,
                         InclusionCheck(control_inclusion_proof, params.control_root,
                                        suite(c, hashfn).x.hashfn)),
             <<at>>)

(***************************************************************************)
(* Decoding the claim a segment seal commits to.                           *)
(***************************************************************************)
\* The output of the v1 rv32im circuit, as OUT_LAYOUT names its regions.
SegmentOutV1(pre, post, input, output, sys_exit, user_exit) ==
    [layout |-> "v1", pre |-> pre, post |-> post, input |-> input, output |-> output,
     sys_exit_code |-> sys_exit, user_exit_code |-> user_exit]

\* Rv32imV2Claim
Rv32imV2Claim(pre_state, post_state, input, output, terminate_state) ==
    [layout |-> "v2", pre_state |-> pre_state, post_state |-> post_state,
     input |-> input, output |-> output, terminate_state |-> terminate_state]

halt_TERMINATE == 0
halt_PAUSE == 1
halt_SPLIT == 2

Decoded(res, claim) == [res |-> res, claim |-> claim]

NoClaim == [none |-> TRUE]

\* The claim context::v1::decode_receipt_claim_from_seal builds from the
\* regions of the circuit output.
ClaimFromOutV1(out, exit_code) ==
    IF ~exit_code.some THEN Decoded(Err("ReceiptFormatError"), NoClaim)
    ELSE Decoded(Ok, ReceiptClaim(Value(out.pre), Value(out.post), exit_code.x,
                                  Pruned(out.input), Pruned(out.output)))

\* context::v1::decode_receipt_claim_from_seal
decode_receipt_claim_from_seal(seal) ==
    IF seal.body = <<>> THEN Decoded(Panic, NoClaim)
    ELSE IF seal.pre # <<>> \/ seal.body[1].out.layout # "v1"
    THEN Decoded(Err("ReceiptFormatError"), NoClaim)
    ELSE ClaimFromOutV1(seal.body[1].out,
                        from_pair(seal.body[1].out.sys_exit_code,
                                  seal.body[1].out.user_exit_code))

\* exit_code_from_rv32im_v2_claim: None stands for the panic on an illegal
\* halt type.
exit_code_from_rv32im_v2_claim(claim) ==
    IF claim.terminate_state.some
    THEN CASE claim.terminate_state.x.halt_type = halt_TERMINATE ->
                 Some(Halted(claim.terminate_state.x.user_exit))
           [] claim.terminate_state.x.halt_type = halt_PAUSE ->
                 Some(Paused(claim.terminate_state.x.user_exit))
           [] OTHER -> None
    ELSE Some(SystemSplit)

\* A translation that keeps the decoded post state of a halted execution.
ClaimFromRv32imV2_keeps_post(claim, exit_code) ==
    IF ~exit_code.some THEN Decoded(Panic, NoClaim)
    ELSE Decoded(Ok,
                 ReceiptClaim(Value(SystemState(0, claim.pre_state)),
                              Value(SystemState(0, claim.post_state)),
                              exit_code.x,
                              Pruned(claim.input),
                              Pruned(IF claim.output.some THEN claim.output.x ELSE ZERO)))

\* The claim context::v2::decode_from_seal builds from a decoded Rv32imV2Claim.
ClaimFromRv32imV2(claim, exit_code) ==
    IF ~exit_code.some THEN Decoded(Panic, NoClaim)
    ELSE Decoded(Ok,
                 ReceiptClaim(Value(SystemState(0, claim.pre_state)),
                              Value(SystemState(0, IF exit_code.x.k = "Halted" THEN ZERO
                                                   ELSE claim.post_state)),
                              exit_code.x,
                              Pruned(claim.input),
                              Pruned(IF claim.output.some THEN claim.output.x ELSE ZERO)))

\* context::v2::decode_from_seal (and its v3 twin)
V2_decode_from_seal(family, seal) ==
    IF seal.body = <<>> \/ seal.pre # <<RV32IM_SEAL_VERSION(family)>>
       \/ seal.body[1].out.layout # "v2"
    THEN Decoded(Err("InvalidProof"), NoClaim)
    ELSE ClaimFromRv32imV2(seal.body[1].out, exit_code_from_rv32im_v2_claim(seal.body[1].out))

decode_from_seal(c, seal) ==
    IF c.family = "V1" THEN decode_receipt_claim_from_seal(seal)
    ELSE V2_decode_from_seal(c.family, seal)

(***************************************************************************)
(* SegmentReceipt                                                          *)
(***************************************************************************)
SegmentReceipt(seal, index, hashfn, verifier_parameters, claim) ==
    [seal |-> seal, index |-> index, hashfn |-> hashfn,
     verifier_parameters |-> verifier_parameters, claim |-> claim]

\* The end of SegmentReceipt::verify_integrity_with_context without the
\* comparison of the decoded claim with the claim field.
SegmentReceipt_compare_claim_unchecked(r, decoded, events) ==
    IF decoded.res.tag # "Ok" THEN Ret(decoded.res, events) ELSE Ret(Ok, events)

\* SegmentReceipt::verify_integrity_with_context, the end: the claim decoded
\* from the seal against the claim field.
SegmentReceipt_compare_claim(r, decoded, events) ==
    IF decoded.res.tag # "Ok" THEN Ret(decoded.res, events)
    ELSE IF ReceiptClaimDigest(decoded.claim) # ReceiptClaimDigest(r.claim)
    THEN Ret(ClaimDigestMismatch(ReceiptClaimDigest(r.claim),
                                 ReceiptClaimDigest(decoded.claim)), events)
    ELSE Ret(Ok, events)

\* SegmentReceipt::verify_integrity_with_context, after the STARK
\* verification returned v.
SegmentReceipt_after_stark(c, r, v) ==
    IF ~IsOk(v) THEN v
    ELSE SegmentReceipt_compare_claim(r, decode_from_seal(c, r.seal), v.log)

\* The same with the circuit info compared first.
SegmentReceipt_verify_integrity_circuit_first(c, r, at) ==
    IF ~c.segment_verifier_parameters.some
    THEN Ret(Err("VerifierParametersMissing"), <<>>)
    ELSE IF c.segment_verifier_parameters.x.circuit_info # segment_circuit_info(c)
    THEN Ret(Err("CircuitInfoMismatch"), <<>>)
    ELSE IF c.segment_verifier_parameters.x.proof_system_info # PROOF_SYSTEM_INFO
    THEN Ret(Err("ProofSystemInfoMismatch"), <<>>)
    ELSE SegmentReceipt_after_stark(c, r,
             verify_segment(c, r.hashfn, r.seal, c.segment_verifier_parameters.x, at))

\* SegmentReceipt::verify_integrity_with_context
SegmentReceipt_verify_integrity_with_context(c, r, at) ==
    IF ~c.segment_verifier_parameters.some
    THEN Ret(Err("VerifierParametersMissing"), <<>>)
    ELSE IF c.segment_verifier_parameters.x.proof_system_info # PROOF_SYSTEM_INFO
    THEN Ret(Err("ProofSystemInfoMismatch"), <<>>)
    ELSE IF c.segment_verifier_parameters.x.circuit_info # segment_circuit_info(c)
    THEN Ret(Err("CircuitInfoMismatch"), <<>>)
    ELSE SegmentReceipt_after_stark(c, r,
             verify_segment(c, r.hashfn, r.seal, c.segment_verifier_parameters.x, at))

(***************************************************************************)
(* SuccinctReceipt                                                         *)
(***************************************************************************)
\* One element of the output of the recursion circuit: word k of a digest
\* ("w"), one of its two half words ("lo", "hi"), or padding ("pad").
Word(dg, k, h) == [dg |-> dg, k |-> k, h |-> h]

Garbled(ws) ==
    [t |-> "garbled", d |-> [i \in 1..Len(ws) |-> ws[i].dg], u |-> [i \in 1..Len(ws) |-> ws[i].k]]

\* Vec<u32> -> Digest: exactly DIGEST_WORDS words.
DigestTryFrom(ws) ==
    IF Len(ws) # DIGEST_WORDS THEN None
    ELSE IF \A i \in 1..DIGEST_WORDS : ws[i] = Word(ws[1].dg, i - 1, "w") THEN Some(ws[1].dg)
    ELSE Some(Garbled(ws))

\* risc0_binfmt::read_sha_halfs: 16 half words, low half first.
read_sha_halfs(flat) ==
    IF Len(flat) < 2 * DIGEST_WORDS THEN None
    ELSE IF \E i \in 1..(2 * DIGEST_WORDS) : flat[i].h = "w" THEN None
    ELSE IF \A i \in 0..(DIGEST_WORDS - 1) :
                /\ flat[2 * i + 1] = Word(flat[1].dg, i, "lo")
                /\ flat[2 * i + 2] = Word(flat[1].dg, i, "hi")
    THEN Some(flat[1].dg)
    ELSE Some(Garbled(SubSeq(flat, 1, 2 * DIGEST_WORDS)))

\* The words at the even positions (counted from 0) of a slot.
EvenWords(slot) == [i \in 1..((Len(slot) + 1) \div 2) |-> slot[2 * i - 1]]

SuccinctReceipt(seal, cid, claim, hashfn, verifier_parameters, control_inclusion_proof) ==
    [kind |-> "Succinct", seal |-> seal, control_id |-> cid, claim |-> claim,
     hashfn |-> hashfn, verifier_parameters |-> verifier_parameters,
     control_inclusion_proof |-> control_inclusion_proof]

\* The end of SuccinctReceipt::verify_integrity_with_context with the root
\* compared to control_root whether or not inner_control_root is set.
SuccinctReceipt_compare_outer_root(params, r, control_root, output_hash, events) ==
    IF ~control_root.some THEN Ret(Err("ReceiptFormatError"), events)
    ELSE IF control_root.x # params.control_root
    THEN Ret(ControlVerificationError(control_root.x), events)
    ELSE IF ~output_hash.some THEN Ret(Err("ReceiptFormatError"), events)
    ELSE IF output_hash.x # MaybePrunedReceiptClaimDigest(r.claim)
    THEN Ret(Err("JournalDigestMismatch"), events)
    ELSE Ret(Ok, events)

\* The same end without the comparison of the claim digests.
SuccinctReceipt_compare_no_claim(params, r, control_root, output_hash, events) ==
    IF ~control_root.some THEN Ret(Err("ReceiptFormatError"), events)
    ELSE IF control_root.x # (IF params.inner_control_root.some
                              THEN params.inner_control_root.x
                              ELSE params.control_root)
    THEN Ret(ControlVerificationError(control_root.x), events)
    ELSE IF ~output_hash.some THEN Ret(Err("ReceiptFormatError"), events)
    ELSE Ret(Ok, events)

\* SuccinctReceipt::verify_integrity_with_context, the end: the two digests
\* read from the output against the expected root and the claim field.
SuccinctReceipt_compare(params, r, control_root, output_hash, events) ==
    IF ~control_root.some THEN Ret(Err("ReceiptFormatError"), events)
    ELSE IF control_root.x # (IF params.inner_control_root.some
                              THEN params.inner_control_root.x
                              ELSE params.control_root)
    THEN Ret(ControlVerificationError(control_root.x), events)
    ELSE IF ~output_hash.some THEN Ret(Err("ReceiptFormatError"), events)
    ELSE IF output_hash.x # MaybePrunedReceiptClaimDigest(r.claim)
    THEN Ret(Err("JournalDigestMismatch"), events)
    ELSE Ret(Ok, events)

\* SuccinctReceipt::verify_integrity_with_context, on the first
\* succinct_output_size elements of the seal.
SuccinctReceipt_read_output(params, r, seal_claim, events) ==
    IF Len(seal_claim) < 16 THEN Ret(Panic, events)
    ELSE SuccinctReceipt_compare(params, r,
             DigestTryFrom(EvenWords(SubSeq(seal_claim, 1, 16))),
             read_sha_halfs(SubSeq(seal_claim, 17, Len(seal_claim))),
             events)

\* output_elems.iter().take(n)
Take(elems, n) == SubSeq(elems, 1, IF Len(elems) < n THEN Len(elems) ELSE n)

\* SuccinctReceipt::verify_integrity_with_context, after the STARK
\* verification returned v.
SuccinctReceipt_after_stark(c, r, v) ==
    IF ~IsOk(v) THEN v
    ELSE SuccinctReceipt_read_output(c.succinct_verifier_parameters.x, r,
                                     Take(r.seal.body[1].out, succinct_output_size(c)), v.log)

\* SuccinctReceipt::verify_integrity_with_context
SuccinctReceipt_verify_integrity_with_context(c, r, at) ==
    IF ~c.succinct_verifier_parameters.some
    THEN Ret(Err("VerifierParametersMissing"), <<>>)
    ELSE IF c.succinct_verifier_parameters.x.proof_system_info # PROOF_SYSTEM_INFO
    THEN Ret(Err("ProofSystemInfoMismatch"), <<>>)
    ELSE IF c.succinct_verifier_parameters.x.circuit_info # succinct_circuit_info(c)
    THEN Ret(Err("CircuitInfoMismatch"), <<>>)
    ELSE SuccinctReceipt_after_stark(c, r,
             verify_succinct(c, r.hashfn, r.seal, r.control_inclusion_proof,
                             c.succinct_verifier_parameters.x, at))

(***************************************************************************)
(* CompositeReceipt and the receipts nested in it.                         *)
(***************************************************************************)
CompositeReceipt(segments, assumption_receipts, verifier_parameters) ==
    [kind |-> "Composite", segments |-> segments,
     assumption_receipts |-> assumption_receipts,
     verifier_parameters |-> verifier_parameters]

Claimed(res, claim) == [res |-> res, claim |-> claim]

\* CompositeReceipt::claim that keeps the output of the last segment as it
\* is, assumptions included.
ClaimFromFirstAndLast_keeps_output(first_claim, last_claim) ==
    IF ~IsValue(last_claim.output) THEN Claimed(Err("ReceiptFormatError"), NoClaim)
    ELSE Claimed(Ok, ReceiptClaim(first_claim.pre, last_claim.post,
                                  last_claim.exit_code, first_claim.input,
                                  last_claim.output))

\* CompositeReceipt::claim, from the claims of the first and last segment.
ClaimFromFirstAndLast(first_claim, last_claim) ==
    IF ~IsValue(last_claim.output) THEN Claimed(Err("ReceiptFormatError"), NoClaim)
    ELSE Claimed(Ok, ReceiptClaim(first_claim.pre, last_claim.post,
                                  last_claim.exit_code, first_claim.input,
                                  Value(IF last_claim.output.v.some
                                        THEN Some(Output(last_claim.output.v.x.journal,
                                                         Value(<<>>)))
                                        ELSE None)))

\* CompositeReceipt::claim
CompositeReceipt_claim(rc) ==
    IF rc.segments = <<>> THEN Claimed(Err("ReceiptFormatError"), NoClaim)
    ELSE ClaimFromFirstAndLast(rc.segments[1].claim, rc.segments[Len(rc.segments)].claim)

Collected(res, list) == [res |-> res, list |-> list]

\* A collection that takes a pruned output, a pruned list and a pruned
\* entry for no assumption.
AssumptionsOfOutput_lenient(output) ==
    IF ~IsValue(output) THEN Collected(Ok, <<>>)
    ELSE IF ~output.v.some THEN Collected(Ok, <<>>)
    ELSE IF ~IsValue(output.v.x.assumptions) THEN Collected(Ok, <<>>)
    ELSE Collected(Ok, [i \in 1..Len(output.v.x.assumptions.v) |->
                           IF IsValue(output.v.x.assumptions.v[i])
                           THEN output.v.x.assumptions.v[i].v
                           ELSE Assumption(ZERO, ZERO)])

\* CompositeReceipt::assumptions, on the output of the last segment.
AssumptionsOfOutput(output) ==
    IF ~IsValue(output) THEN Collected(Err("ReceiptFormatError"), <<>>)
    ELSE IF ~output.v.some THEN Collected(Ok, <<>>)
    ELSE IF AssumptionsIsEmpty(output.v.x.assumptions) THEN Collected(Ok, <<>>)
    ELSE IF ~IsValue(output.v.x.assumptions)
    THEN Collected(Err("ReceiptFormatError"), <<>>)
    ELSE IF \E i \in 1..Len(output.v.x.assumptions.v) : ~IsValue(output.v.x.assumptions.v[i])
    THEN Collected(Err("ReceiptFormatError"), <<>>)
    ELSE Collected(Ok, [i \in 1..Len(output.v.x.assumptions.v) |->
                           output.v.x.assumptions.v[i].v])

\* CompositeReceipt::assumptions
CompositeReceipt_assumptions(rc) ==
    IF rc.segments = <<>> THEN Collected(Err("ReceiptFormatError"), <<>>)
    ELSE AssumptionsOfOutput(rc.segments[Len(rc.segments)].claim.output)

Digested(res, dg) == [res |-> res, dg |-> dg]

\* InnerAssumptionReceipt::claim_digest
claim_digest(r) ==
    IF r.kind = "Composite"
    THEN (IF CompositeReceipt_claim(r).res.tag # "Ok"
          THEN Digested(CompositeReceipt_claim(r).res, ZERO)
          ELSE Digested(Ok, ReceiptClaimDigest(CompositeReceipt_claim(r).claim)))
    ELSE Digested(Ok, MaybePrunedReceiptClaimDigest(r.claim))

boxed_clone(c) ==
    Context(c.family, c.circuit, c.recursive_circuit, c.suites,
            c.segment_verifier_parameters, c.succinct_verifier_parameters)

RECURSIVE verify_integrity_with_context(_, _, _)
RECURSIVE VerifySegments(_, _, _, _, _, _)
RECURSIVE VerifyAssumptions(_, _, _, _, _, _)

\* The context an assumption's receipt is verified under.
AssumptionContext(c, assumption_ctx) ==
    IF assumption_ctx.some THEN boxed_clone(assumption_ctx.x) ELSE boxed_clone(c)

\* One turn of the assumption loop that does not compare the receipt's
\* claim digest with the assumption's claim.
AfterAssumptionReceipt_unchecked(c, rc, path, assumptions, k, events, v) ==
    IF ~IsOk(v) THEN Ret(v.res, events \o v.log)
    ELSE IF claim_digest(rc.assumption_receipts[k]).res.tag # "Ok"
    THEN Ret(claim_digest(rc.assumption_receipts[k]).res, events \o v.log)
    ELSE VerifyAssumptions(c, rc, path, assumptions, k + 1, events \o v.log)

\* One turn of the assumption loop, after the receipt's integrity
\* verification returned v: compare the claim digests, go on with pair k + 1.
AfterAssumptionReceipt(c, rc, path, assumptions, k, events, v) ==
    IF ~IsOk(v) THEN Ret(v.res, events \o v.log)
    ELSE IF claim_digest(rc.assumption_receipts[k]).res.tag # "Ok"
    THEN Ret(claim_digest(rc.assumption_receipts[k]).res, events \o v.log)
    ELSE IF claim_digest(rc.assumption_receipts[k]).dg # assumptions[k].claim
    THEN Ret(ClaimDigestMismatch(assumptions[k].claim,
                                 claim_digest(rc.assumption_receipts[k]).dg),
             events \o v.log)
    ELSE VerifyAssumptions(c, rc, path, assumptions, k + 1, events \o v.log)

\* The assumption loop of CompositeReceipt::verify_integrity_with_context,
\* from pair k on.
VerifyAssumptions(c, rc, path, assumptions, k, events) ==
    IF k > Len(assumptions) THEN Ret(Ok, events)
    ELSE AfterAssumptionReceipt(c, rc, path, assumptions, k,
             events \o <<Event("assumption", path \o <<k>>, 0)>>,
             verify_integrity_with_context(
                 AssumptionContext(c, assumption_context(c, assumptions[k])),
                 rc.assumption_receipts[k], path \o <<k>>))

\* The count check before the assumption loop.
CheckAssumptionCount(c, rc, path, assumptions, events) ==
    IF assumptions.res.tag # "Ok" THEN Ret(assumptions.res, events)
    ELSE IF Len(assumptions.list) # Len(rc.assumption_receipts)
    THEN Ret(Err("ReceiptFormatError"), events)
    ELSE VerifyAssumptions(c, rc, path, assumptions.list, 1, events)

\* The part of CompositeReceipt::verify_integrity_with_context after the
\* continuation: collect the assumptions, compare the counts, run the loop.
ResolveAssumptions(c, rc, path, events) ==
    CheckAssumptionCount(c, rc, path, CompositeReceipt_assumptions(rc), events)

\* One turn of the continuation loop that reads the post state of every
\* segment as a value, the last one's too.
AfterSegment_post_first(c, rc, path, i, expected_pre_state_digest, events, claim, v) ==
    IF ~IsOk(v) THEN Ret(v.res, events \o v.log)
    ELSE IF /\ expected_pre_state_digest.some
            /\ expected_pre_state_digest.x # MaybePrunedSystemStateDigest(claim.pre)
    THEN Ret(Err("ImageVerificationError"), events \o v.log)
    ELSE IF ~IsValue(claim.post) THEN Ret(Err("ReceiptFormatError"), events \o v.log)
    ELSE IF i = Len(rc.segments) THEN ResolveAssumptions(c, rc, path, events \o v.log)
    ELSE IF claim.exit_code # SystemSplit THEN Ret(Err("UnexpectedExitCode"), events \o v.log)
    ELSE IF ~is_none(claim.output) THEN Ret(Err("ReceiptFormatError"), events \o v.log)
    ELSE VerifySegments(c, rc, path, i + 1, Some(SystemStateDigest(claim.post.v)),
                        events \o v.log)

\* One turn of the continuation loop that does not compare the pre state
\* of a segment with the post state of the segment before it.
AfterSegment_unchained(c, rc, path, i, expected_pre_state_digest, events, claim, v) ==
    IF ~IsOk(v) THEN Ret(v.res, events \o v.log)
    ELSE IF i = Len(rc.segments) THEN ResolveAssumptions(c, rc, path, events \o v.log)
    ELSE IF claim.exit_code # SystemSplit THEN Ret(Err("UnexpectedExitCode"), events \o v.log)
    ELSE IF ~is_none(claim.output) THEN Ret(Err("ReceiptFormatError"), events \o v.log)
    ELSE IF ~IsValue(claim.post) THEN Ret(Err("ReceiptFormatError"), events \o v.log)
    ELSE VerifySegments(c, rc, path, i + 1, Some(SystemStateDigest(claim.post.v)),
                        events \o v.log)

\* One turn of the continuation loop, after the integrity verification of
\* segment i returned v: the chaining checks, then segment i + 1 or, after
\* the last one, the assumptions.
AfterSegment(c, rc, path, i, expected_pre_state_digest, events, claim, v) ==
    IF ~IsOk(v) THEN Ret(v.res, events \o v.log)
    ELSE IF /\ expected_pre_state_digest.some
            /\ expected_pre_state_digest.x # MaybePrunedSystemStateDigest(claim.pre)
    THEN Ret(Err("ImageVerificationError"), events \o v.log)
    ELSE IF i = Len(rc.segments) THEN ResolveAssumptions(c, rc, path, events \o v.log)
    ELSE IF claim.exit_code # SystemSplit THEN Ret(Err("UnexpectedExitCode"), events \o v.log)
    ELSE IF ~is_none(claim.output) THEN Ret(Err("ReceiptFormatError"), events \o v.log)
    ELSE IF ~IsValue(claim.post) THEN Ret(Err("ReceiptFormatError"), events \o v.log)
    ELSE VerifySegments(c, rc, path, i + 1, Some(SystemStateDigest(claim.post.v)),
                        events \o v.log)

\* The continuation loop of CompositeReceipt::verify_integrity_with_context,
\* from segment i on.
VerifySegments(c, rc, path, i, expected_pre_state_digest, events) ==
    AfterSegment(c, rc, path, i, expected_pre_state_digest, events, rc.segments[i].claim,
                 SegmentReceipt_verify_integrity_with_context(c, rc.segments[i],
                                                              Event("stark", path, i)))

\* CompositeReceipt::verify_integrity_with_context taking the final receipt
\* split_last hands out before the receipts in front of it.
CompositeReceipt_verify_final_first(c, rc, path) ==
    IF rc.segments = <<>> THEN Ret(Err("ReceiptFormatError"), <<>>)
    ELSE IF ~IsOk(SegmentReceipt_verify_integrity_with_context(
                     c, rc.segments[Len(rc.segments)],
                     Event("stark", path, Len(rc.segments))))
    THEN SegmentReceipt_verify_integrity_with_context(
             c, rc.segments[Len(rc.segments)], Event("stark", path, Len(rc.segments)))
    ELSE VerifySegments(c, rc, path, 1, None, <<>>)

\* CompositeReceipt::verify_integrity_with_context
CompositeReceipt_verify_integrity_with_context(c, rc, path) ==
    IF rc.segments = <<>> THEN Ret(Err("ReceiptFormatError"), <<>>)
    ELSE VerifySegments(c, rc, path, 1, None, <<>>)

\* InnerReceipt::verify_integrity_with_context and its twin on
\* InnerAssumptionReceipt: dispatch on the kind of receipt.
verify_integrity_with_context(c, r, path) ==
    IF r.kind = "Composite" THEN CompositeReceipt_verify_integrity_with_context(c, r, path)
    ELSE SuccinctReceipt_verify_integrity_with_context(c, r, Event("stark", path, 0))

(***************************************************************************)
(* Proof                                                                   *)
(***************************************************************************)
Proof(inner) == [inner |-> inner]

\* is_valid_receipt as the trait's default has it for every context.
is_valid_receipt_default(c, p) == TRUE

\* VerifierContext::is_valid_receipt: every receipt for V1; V2 and V3 refuse
\* a composite with a segment labelled "sha-256".
is_valid_receipt(c, p) ==
    IF c.family = "V1" THEN TRUE
    ELSE IF p.inner.kind = "Composite"
            /\ \E i \in 1..Len(p.inner.segments) : p.inner.segments[i].hashfn = "sha-256"
    THEN FALSE
    ELSE TRUE

\* InnerReceipt::claim
InnerReceipt_claim(r) ==
    IF r.kind = "Composite"
    THEN (IF CompositeReceipt_claim(r).res.tag # "Ok"
          THEN Claimed(CompositeReceipt_claim(r).res, NoClaim)
          ELSE Claimed(Ok, Value(CompositeReceipt_claim(r).claim)))
    ELSE Claimed(Ok, r.claim)

\* Proof::verify without the comparison of the claim digests.
CompareClaims_unchecked(expected_claim, claim, events) ==
    IF claim.res.tag # "Ok" THEN Ret(claim.res, events) ELSE Ret(Ok, events)

\* Proof::verify, the end: the expected claim against the receipt's claim.
CompareClaims(expected_claim, claim, events) ==
    IF claim.res.tag # "Ok" THEN Ret(claim.res, events)
    ELSE IF ReceiptClaimDigest(expected_claim) # MaybePrunedReceiptClaimDigest(claim.claim)
    THEN Ret(ClaimDigestMismatch(ReceiptClaimDigest(expected_claim),
                                 MaybePrunedReceiptClaimDigest(claim.claim)), events)
    ELSE Ret(Ok, events)

\* Proof::verify, after the integrity verification returned v.
AfterIntegrity(p, img, pubs, v) ==
    IF ~IsOk(v) THEN v
    ELSE CompareClaims(ReceiptClaim_ok(img, Pruned(pubs)), InnerReceipt_claim(p.inner), v.log)

\* A Proof::verify that first compares the receipt's verifier_parameters
\* with the digest the context's release writes.
Proof_verify_checks_parameters(c, p, img, pubs) ==
    IF p.inner.verifier_parameters # Opaque(VerNum(c.circuit.ver))
    THEN Ret(Err("VerifierParametersMismatch"), <<>>)
    ELSE IF ~is_valid_receipt(c, p) THEN Ret(Err("ReceiptFormatError"), <<>>)
    ELSE AfterIntegrity(p, img, pubs, verify_integrity_with_context(c, p.inner, <<>>))

\* Proof::verify(ctx, image_id, pubs)
Proof_verify(c, p, img, pubs) ==
    IF ~is_valid_receipt(c, p) THEN Ret(Err("ReceiptFormatError"), <<>>)
    ELSE AfterIntegrity(p, img, pubs, verify_integrity_with_context(c, p.inner, <<>>))

\* Journal::digest
Journal_digest(bytes) == hash_bytes(bytes)

\* Verifier::verify(image_id, proof, pubs)
Verifier_verify(c, img, p, jrn) == Proof_verify(c, p, img, Journal_digest(jrn))

(***************************************************************************)
(* Receipts as the prover of a release produces them.                      *)
(***************************************************************************)
\* The machine state of program prog after j segments.
StateAt(ver, prog, j) ==
    SystemState(IF Family(ver) = "V1" THEN 4 * (j + 1) ELSE 0, Opaque(10 * prog + j))

\* The post state every release reports for a halted machine.
HaltedState == SystemState(0, ZERO)

ImageId(ver, prog) == SystemStateDigest(StateAt(ver, prog, 0))

HonestJournal == <<0, 1>>

ProgJournal(prog) == IF prog = 1 THEN HonestJournal ELSE <<prog>>

\* The claim of segment i of the n segments of an execution of prog.
SegmentClaim(ver, prog, i, n, assumptions) ==
    ReceiptClaim(Value(StateAt(ver, prog, i - 1)),
                 Value(IF i = n THEN HaltedState ELSE StateAt(ver, prog, i)),
                 IF i = n THEN Halted(0) ELSE SystemSplit,
                 Value(None),
                 Value(IF i = n THEN Some(Output(Value(ProgJournal(prog)), Value(assumptions)))
                       ELSE None))

\* The terminate state the v2 circuit reports for an exit code.
TerminateState(exit_code) ==
    IF exit_code.k = "SystemSplit" THEN None
    ELSE Some([user_exit |-> exit_code.n,
               halt_type |-> IF exit_code.k = "Halted" THEN halt_TERMINATE ELSE halt_PAUSE])

\* The circuit output that commits to a claim.
SealOut(ver, claim) ==
    IF Family(ver) = "V1"
    THEN SegmentOutV1(claim.pre.v, claim.post.v, ZERO, MaybePrunedOutputDigest(claim.output),
                      into_pair(claim.exit_code)[1], into_pair(claim.exit_code)[2])
    ELSE Rv32imV2Claim(claim.pre.v.merkle_root,
                       IF claim.exit_code.k = "Halted" THEN Opaque(99)
                       ELSE claim.post.v.merkle_root,
                       ZERO,
                       IF MaybePrunedOutputDigest(claim.output) = ZERO THEN None
                       ELSE Some(MaybePrunedOutputDigest(claim.output)),
                       TerminateState(claim.exit_code))

\* The hash a segment seal is really built with: the v2 and v3 provers use
\* Poseidon2 whatever the receipt's hashfn says.
SealHash(ver, hashfn) == IF Family(ver) = "V1" THEN hashfn ELSE "poseidon2"

\* A segment receipt proven by release ver for a program of 2^po2 cycles.
ProveSegment(ver, hashfn, po2, index, claim) ==
    SegmentReceipt(
        Seal(IF Family(ver) = "V1" THEN <<>> ELSE <<RV32IM_SEAL_VERSION(Family(ver))>>,
             <<SealBody(CIRCUIT(ver), SealHash(ver, hashfn),
                        control_id(ver, SealHash(ver, hashfn), po2).x, po2,
                        SealOut(ver, claim), TRUE)>>),
        index, hashfn, Opaque(VerNum(ver)), claim)

HonestPo2 == DEFAULT_MAX_PO2 - 1
LargePo2 == DEFAULT_MAX_PO2 + 1

\* The composite receipt of an execution of prog in n segments.
ProveComposite(ver, hashfn, prog, n, assumptions, assumption_receipts) ==
    CompositeReceipt(
        [i \in 1..n |-> ProveSegment(ver, hashfn, HonestPo2, i - 1,
                                     SegmentClaim(ver, prog, i, n, assumptions))],
        assumption_receipts, Opaque(VerNum(ver)))

\* The two 16-element output slots of the recursion circuit.
PoseidonSlot(dg) ==
    [i \in 1..16 |-> IF i % 2 = 1 THEN Word(dg, (i - 1) \div 2, "w") ELSE Word(ZERO, 0, "pad")]

ShaSlot(dg) ==
    [i \in 1..16 |-> Word(dg, (i - 1) \div 2, IF i % 2 = 1 THEN "lo" ELSE "hi")]

\* The claim of a whole execution of prog, as a succinct receipt carries it.
ExecutionClaim(ver, prog) ==
    ReceiptClaim(Value(StateAt(ver, prog, 0)), Value(HaltedState), Halted(0), Value(None),
                 Value(Some(Output(Value(ProgJournal(prog)), Value(<<>>)))))

\* The succinct receipt of an execution of prog, rolled up by recursion
\* program j under the control root root.
ProveSuccinct(ver, prog, j, root) ==
    SuccinctReceipt(
        Seal(<<>>, <<SealBody(RECURSIVE_CIRCUIT(ver), "poseidon2", RecursionControlId(ver, j),
                              18,
                              PoseidonSlot(root)
                              \o ShaSlot(ReceiptClaimDigest(ExecutionClaim(ver, prog))),
                              TRUE)>>),
        RecursionControlId(ver, j), Value(ExecutionClaim(ver, prog)), "poseidon2",
        Opaque(VerNum(ver)), ControlInclusionProof(ver, j))

\* A composite receipt whose execution relies on two assumptions, the first
\* resolved by a succinct receipt and the second by a composite one.
ProveConditional(ver) ==
    ProveComposite(ver, "poseidon2", 1, 1,
        << Value(Assumption(ReceiptClaimDigest(ExecutionClaim(ver, 2)), ZERO)),
           Value(Assumption(ReceiptClaimDigest(ExecutionClaim(ver, 3)), ZERO)) >>,
        << ProveSuccinct(ver, 2, 1, ALLOWED_CONTROL_ROOT(ver)),
           ProveComposite(ver, "poseidon2", 3, 1, <<>>, <<>>) >>)

\* The proofs a prover of release ver hands out for program 1.
HonestProofs(ver) ==
    {Proof(ProveComposite(ver, h, 1, n, <<>>, <<>>)) :
        h \in {"poseidon2", "sha-256"}, n \in 1..MaxSegments}
    \cup {Proof(ProveSuccinct(ver, 1, 0, ALLOWED_CONTROL_ROOT(ver))),
          Proof(ProveConditional(ver))}

NotRun == Err("NotRun")

\* No library function has been called on its own.
NoCall == [fn |-> "none"]

\* No operation has been applied to the assumptions list.
NoOp == [fn |-> "none", n |-> 0]

Init == /\ \E ver \in Versions :
              /\ ctx = NewContext(ver)
              /\ proof \in HonestProofs(ver)
              /\ image_id = ImageId(ver, 1)
        /\ journal = HonestJournal
        /\ pc = "ready" /\ result = NotRun /\ log = <<>> /\ tampers = 0
        /\ call = NoCall
        /\ assumptions_list = Value(<<>>) /\ op = NoOp

(***************************************************************************)
(* What a caller may do to the proof, the key, the journal and the context *)
(* before verifying.                                                       *)
(***************************************************************************)
CanTamper == pc = "ready" /\ tampers < MaxTampers

IsComposite == proof.inner.kind = "Composite"

Tampered == /\ tampers' = tampers + 1
            /\ UNCHANGED <<pc, result, log, call, assumptions_list, op>>

ExitCodes == {Halted(0), Halted(1), Paused(0), SystemSplit, SessionLimit}

TamperHashNames == {"poseidon2", "sha-256", "keccak"}

\* The release a context was built for.
ContextVersion(c) == c.circuit.ver

\* Another release of the same family line, whose receipts a caller may mix in.
OtherRelease(ver) ==
    CASE ver = "v1_0" -> "v1_1" [] ver = "v1_1" -> "v1_0" [] ver = "v1_2" -> "v1_0"
      [] ver = "v2_0" -> "v2_1" [] ver = "v2_1" -> "v2_0" [] ver = "v2_2" -> "v2_1"
      [] OTHER -> "v2_2"

\* seal[seal.len() / 2] += 1 on segment i: the proof no longer checks out.
TamperSegmentSeal ==
    /\ CanTamper /\ IsComposite
    /\ \E i \in 1..Len(proof.inner.segments) :
          /\ proof.inner.segments[i].seal.body[1].sound
          /\ proof' = [proof EXCEPT !.inner.segments[i].seal.body[1].sound = FALSE]
    /\ Tampered /\ UNCHANGED <<ctx, image_id, journal>>

\* segments[i].claim.exit_code = e
SetSegmentExitCode ==
    /\ CanTamper /\ IsComposite
    /\ \E i \in 1..Len(proof.inner.segments), e \in ExitCodes :
          /\ e # proof.inner.segments[i].claim.exit_code
          /\ proof' = [proof EXCEPT !.inner.segments[i].claim.exit_code = e]
    /\ Tampered /\ UNCHANGED <<ctx, image_id, journal>>

\* segments[i].hashfn = h
SetSegmentHashfn ==
    /\ CanTamper /\ IsComposite
    /\ \E i \in 1..Len(proof.inner.segments), h \in TamperHashNames :
          /\ h # proof.inner.segments[i].hashfn
          /\ proof' = [proof EXCEPT !.inner.segments[i].hashfn = h]
    /\ Tampered /\ UNCHANGED <<ctx, image_id, journal>>

\* The digest of field f of a claim.
ClaimFieldDigest(claim, f) ==
    IF f = "output" THEN MaybePrunedOutputDigest(claim[f])
    ELSE MaybePrunedSystemStateDigest(claim[f])

\* Replace a field of segments[i].claim by its digest (the claim's digest
\* does not change).
PruneSegmentClaim ==
    /\ CanTamper /\ IsComposite
    /\ \E i \in 1..Len(proof.inner.segments), f \in {"pre", "post", "output"} :
          /\ IsValue(proof.inner.segments[i].claim[f])
          /\ proof' = [proof EXCEPT !.inner.segments[i].claim[f] =
                          Pruned(ClaimFieldDigest(proof.inner.segments[i].claim, f))]
    /\ Tampered /\ UNCHANGED <<ctx, image_id, journal>>

\* The receipt of the claim of a segment, proven anew.
Reproved(old, pv, po2) == ProveSegment(pv, old.hashfn, po2, old.index, old.claim)

\* Replace segment i by a receipt of the same claim proven for a larger
\* cycle count, or by another release.
ReproveSegment ==
    /\ CanTamper /\ IsComposite
    /\ \E i \in 1..Len(proof.inner.segments),
          pv \in {ContextVersion(ctx), OtherRelease(ContextVersion(ctx))},
          po2 \in {HonestPo2, LargePo2} :
          /\ IsValue(proof.inner.segments[i].claim.pre)
          /\ IsValue(proof.inner.segments[i].claim.post)
          /\ proof.inner.segments[i].hashfn \in {"poseidon2", "sha-256"}
          /\ proof.inner.segments[i].claim.exit_code.k # "SessionLimit"
          /\ Reproved(proof.inner.segments[i], pv, po2) # proof.inner.segments[i]
          /\ proof' = [proof EXCEPT !.inner.segments[i] = Reproved(@, pv, po2)]
    /\ Tampered /\ UNCHANGED <<ctx, image_id, journal>>

\* Drop segment i from the continuation.
RemoveSegment ==
    /\ CanTamper /\ IsComposite
    /\ \E i \in 1..Len(proof.inner.segments) :
          proof' = [proof EXCEPT !.inner.segments =
                       [j \in 1..(Len(@) - 1) |-> IF j < i THEN @[j] ELSE @[j + 1]]]
    /\ Tampered /\ UNCHANGED <<ctx, image_id, journal>>

\* Segments proven for other executions: the last segment of program 2, a
\* split segment that continues the first segment of program 1, and a split
\* segment that reports an output.
ForeignSegments(ver) ==
    { ProveSegment(ver, "poseidon2", HonestPo2, 0, SegmentClaim(ver, 2, 1, 1, <<>>)),
      ProveSegment(ver, "poseidon2", HonestPo2, 1, SegmentClaim(ver, 1, 2, 3, <<>>)),
      ProveSegment(ver, "poseidon2", HonestPo2, 0,
                   [SegmentClaim(ver, 1, 1, 2, <<>>) EXCEPT
                       !.output = Value(Some(Output(Value(HonestJournal), Value(<<>>))))]) }

\* segments.insert(i - 1, seg): put a segment proven for another execution
\* in front of segment i, or behind the last one.
InsertSegment ==
    /\ CanTamper /\ IsComposite
    /\ Len(proof.inner.segments) < MaxSegments
    /\ \E seg \in ForeignSegments(ContextVersion(ctx)),
          i \in 1..(Len(proof.inner.segments) + 1) :
          proof' = [proof EXCEPT !.inner.segments =
                       [j \in 1..(Len(@) + 1) |->
                           IF j < i THEN @[j] ELSE IF j = i THEN seg ELSE @[j - 1]]]
    /\ Tampered /\ UNCHANGED <<ctx, image_id, journal>>

\* One bit of a digest flipped: a different digest, and the same one again
\* when the bit is flipped back.
FlipDigestBit(dg, b) ==
    IF dg.t = "flipped" /\ dg.u = <<b>> THEN dg.d[1]
    ELSE [t |-> "flipped", d |-> <<dg>>, u |-> <<b>>]

VkBits == {0, 255}

\* vk[b] ^= 1
FlipVkBit ==
    /\ CanTamper
    /\ \E b \in VkBits : image_id' = FlipDigestBit(image_id, b)
    /\ Tampered /\ UNCHANGED <<ctx, proof, journal>>

\* journal.bytes[i] ^= 1
FlipJournalBit ==
    /\ CanTamper
    /\ \E i \in 1..Len(journal) : journal' = [journal EXCEPT ![i] = 1 - @]
    /\ Tampered /\ UNCHANGED <<ctx, proof, image_id>>

IsSuccinct == proof.inner.kind = "Succinct"

\* seal[seal.len() / 2] += 1 on a succinct receipt.
TamperSuccinctSeal ==
    /\ CanTamper /\ IsSuccinct
    /\ proof.inner.seal.body[1].sound
    /\ proof' = [proof EXCEPT !.inner.seal.body[1].sound = FALSE]
    /\ Tampered /\ UNCHANGED <<ctx, image_id, journal>>

\* Claims a caller may put in place of a succinct receipt's claim: the zero
\* digest, the claim of another execution, the claim's own digest.
SuccinctClaims(c, own) ==
    {Pruned(ZERO), Value(ExecutionClaim(ContextVersion(c), 2)),
     Pruned(MaybePrunedReceiptClaimDigest(own))}

\* inner.claim = claim
SetSuccinctClaim ==
    /\ CanTamper /\ IsSuccinct
    /\ \E claim \in SuccinctClaims(ctx, proof.inner.claim) :
          /\ claim # proof.inner.claim
          /\ proof' = [proof EXCEPT !.inner.claim = claim]
    /\ Tampered /\ UNCHANGED <<ctx, image_id, journal>>

\* Make the seal of a nested receipt fail its algebraic checks.
Unsound(r) ==
    IF r.kind = "Succinct" THEN [r EXCEPT !.seal.body[1].sound = FALSE]
    ELSE [r EXCEPT !.segments[1].seal.body[1].sound = FALSE]

\* Tamper with the seal of assumption receipt k.
TamperAssumptionReceipt ==
    /\ CanTamper /\ IsComposite
    /\ \E k \in 1..Len(proof.inner.assumption_receipts) :
          /\ Unsound(proof.inner.assumption_receipts[k]) # proof.inner.assumption_receipts[k]
          /\ proof' = [proof EXCEPT !.inner.assumption_receipts[k] = Unsound(@)]
    /\ Tampered /\ UNCHANGED <<ctx, image_id, journal>>

\* Drop assumption receipt k.
RemoveAssumptionReceipt ==
    /\ CanTamper /\ IsComposite
    /\ \E k \in 1..Len(proof.inner.assumption_receipts) :
          proof' = [proof EXCEPT !.inner.assumption_receipts =
                       [j \in 1..(Len(@) - 1) |-> IF j < k THEN @[j] ELSE @[j + 1]]]
    /\ Tampered /\ UNCHANGED <<ctx, image_id, journal>>

\* Hand over the assumption receipts in reverse order.
ReverseAssumptionReceipts ==
    /\ CanTamper /\ IsComposite
    /\ Len(proof.inner.assumption_receipts) > 1
    /\ proof' = [proof EXCEPT !.inner.assumption_receipts =
                    [j \in 1..Len(@) |-> @[Len(@) + 1 - j]]]
    /\ Tampered /\ UNCHANGED <<ctx, image_id, journal>>

\* assumption_receipts[k].segments[i].hashfn = h, on a composite receipt
\* attached for an assumption.
SetAssumptionSegmentHashfn ==
    /\ CanTamper /\ IsComposite
    /\ \E k \in 1..Len(proof.inner.assumption_receipts) :
          /\ proof.inner.assumption_receipts[k].kind = "Composite"
          /\ \E i \in 1..Len(proof.inner.assumption_receipts[k].segments),
                h \in TamperHashNames :
                /\ h # proof.inner.assumption_receipts[k].segments[i].hashfn
                /\ proof' = [proof EXCEPT
                                !.inner.assumption_receipts[k].segments[i].hashfn = h]
    /\ Tampered /\ UNCHANGED <<ctx, image_id, journal>>

\* Roots a caller may set as inner control root: the zero digest and the
\* control root of the context's release.
InnerControlRoots(c) == {ZERO, ALLOWED_CONTROL_ROOT(ContextVersion(c))}

\* mut_succinct_verifier_parameters().inner_control_root = Some(root)
SetInnerControlRoot ==
    /\ CanTamper
    /\ ctx.succinct_verifier_parameters.some
    /\ \E root \in InnerControlRoots(ctx) :
          /\ ctx.succinct_verifier_parameters.x.inner_control_root # Some(root)
          /\ ctx' = [ctx EXCEPT !.succinct_verifier_parameters.x.inner_control_root =
                        Some(root)]
    /\ Tampered /\ UNCHANGED <<proof, image_id, journal>>

\* verifier.set_poseidon2_mix_impl(Box::new(mix))
SetPoseidon2MixImpl ==
    /\ CanTamper
    /\ \E mix \in {"Loc", "Fake"} : ctx' = set_poseidon2_mix_impl(ctx, mix)
    /\ Tampered /\ UNCHANGED <<proof, image_id, journal>>

\* with_suites: keep only the SHA-256 suite.
WithSuites ==
    /\ CanTamper
    /\ "poseidon2" \in DOMAIN ctx.suites
    /\ ctx' = with_suites(ctx, [n \in {"sha-256"} |-> ctx.suites[n]])
    /\ Tampered /\ UNCHANGED <<proof, image_id, journal>>

\* Digests a caller may write into a verifier_parameters field: none, and
\* the one the prover of another release writes.
ParameterDigests(c) == {ZERO, Opaque(VerNum(OtherRelease(ContextVersion(c))))}

\* segments[i].index = index
SetSegmentIndex ==
    /\ CanTamper /\ IsComposite
    /\ \E i \in 1..Len(proof.inner.segments), index \in {0, MaxSegments} :
          /\ index # proof.inner.segments[i].index
          /\ proof' = [proof EXCEPT !.inner.segments[i].index = index]
    /\ Tampered /\ UNCHANGED <<ctx, image_id, journal>>

\* segments[i].verifier_parameters = d
SetSegmentVerifierParameters ==
    /\ CanTamper /\ IsComposite
    /\ \E i \in 1..Len(proof.inner.segments), d \in ParameterDigests(ctx) :
          proof' = [proof EXCEPT !.inner.segments[i].verifier_parameters = d]
    /\ Tampered /\ UNCHANGED <<ctx, image_id, journal>>

\* inner.verifier_parameters = d, on a composite or a succinct receipt
SetVerifierParameters ==
    /\ CanTamper
    /\ \E d \in ParameterDigests(ctx) :
          proof' = [proof EXCEPT !.inner.verifier_parameters = d]
    /\ Tampered /\ UNCHANGED <<ctx, image_id, journal>>

\* inner.control_id = d on a succinct receipt
SetSuccinctControlId ==
    /\ CanTamper /\ IsSuccinct
    /\ \E d \in {ZERO, RecursionControlId(ContextVersion(ctx), 1)} :
          proof' = [proof EXCEPT !.inner.control_id = d]
    /\ Tampered /\ UNCHANGED <<ctx, image_id, journal>>

\* Verifier::verify(image_id, proof, journal)
Verify ==
    /\ pc = "ready"
    /\ result' = Verifier_verify(ctx, image_id, proof, journal).res
    /\ log' = Verifier_verify(ctx, image_id, proof, journal).log
    /\ pc' = "done"
    /\ UNCHANGED <<ctx, proof, image_id, journal, tampers, call, assumptions_list, op>>

Next ==
    \/ Verify
    \/ TamperSegmentSeal
    \/ SetSegmentExitCode
    \/ SetSegmentHashfn
    \/ PruneSegmentClaim
    \/ ReproveSegment
    \/ RemoveSegment
    \/ InsertSegment
    \/ FlipVkBit
    \/ FlipJournalBit
    \/ TamperSuccinctSeal
    \/ SetSuccinctClaim
    \/ TamperAssumptionReceipt
    \/ RemoveAssumptionReceipt
    \/ ReverseAssumptionReceipts
    \/ SetInnerControlRoot
    \/ SetPoseidon2MixImpl
    \/ WithSuites
    \/ SetSegmentIndex
    \/ SetSegmentVerifierParameters
    \/ SetVerifierParameters
    \/ SetSuccinctControlId
    \/ SetAssumptionSegmentHashfn

Spec == Init /\ [][Next]_vars

(***************************************************************************)
(* Library functions a caller may call on their own: the verifier has been *)
(* built and a proof loaded, and one function is called with inputs the    *)
(* caller chooses.                                                         *)
(***************************************************************************)
CanCall == pc = "ready" /\ call = NoCall

Called == UNCHANGED <<ctx, proof, image_id, journal, pc, result, log, tampers, assumptions_list, op>>

\* A release of another family than the context's.
ForeignRelease(c) == IF c.family = "V1" THEN "v2_1" ELSE "v1_2"

\* The (sys, user) words a circuit output may report as the exit code.
RawExits == {<<0, 0>>, <<0, 1>>, <<1, 0>>, <<1, 1>>, <<2, 0>>, <<2, 2>>, <<3, 0>>}

\* The seal of a one-segment execution proven by release ver, with the exit
\* code words of its circuit output overwritten.
SealWithExit(ver, sys, user) ==
    IF Family(ver) = "V1"
    THEN [ProveSegment(ver, "poseidon2", HonestPo2, 0, SegmentClaim(ver, 1, 1, 1, <<>>)).seal
             EXCEPT !.body[1].out.sys_exit_code = sys, !.body[1].out.user_exit_code = user]
    ELSE [ProveSegment(ver, "poseidon2", HonestPo2, 0, SegmentClaim(ver, 1, 1, 1, <<>>)).seal
             EXCEPT !.body[1].out.terminate_state =
                        Some([user_exit |-> user, halt_type |-> sys])]

\* Seals a caller may hand to the decoder: no word at all, the version
\* prefix alone, the seal of a split segment, and seals of the context's
\* release and of a foreign one with every exit code.
DecodeSeals(c) ==
    {Seal(<<>>, <<>>), Seal(<<RV32IM_SEAL_VERSION(c.family)>>, <<>>),
     ProveSegment(ContextVersion(c), "poseidon2", HonestPo2, 0,
                  SegmentClaim(ContextVersion(c), 1, 1, 2, <<>>)).seal}
    \cup {SealWithExit(ver, e[1], e[2]) :
             ver \in {ContextVersion(c), ForeignRelease(c)}, e \in RawExits}

\* ctx.decode_from_seal(seal)
CallDecodeFromSeal ==
    /\ CanCall
    /\ \E seal \in DecodeSeals(ctx) :
          call' = [fn |-> "decode_from_seal", seal |-> seal,
                   ret |-> decode_from_seal(ctx, seal)]
    /\ Called

SegmentInfo(hash, po2) == [hash |-> hash, po2 |-> po2]

\* What a read at a position the seal's layout does not put the po2 at gives.
StrayWord == 0 - 1

Extracted(res, po2) == [res |-> res, po2 |-> po2]

\* s.seal.split_at(seal_offset) followed by extract_segment_po2 on the words
\* behind the offset: the element at position output_size.  Both split_at
\* and the read of output_size + 1 elements abort on a seal that is too short.
extract_segment_po2(seal, seal_offset) ==
    IF Len(seal.pre) < seal_offset /\ seal.body = <<>> THEN Extracted(Panic, StrayWord)
    ELSE IF seal.body = <<>> THEN Extracted(Panic, StrayWord)
    ELSE IF Len(seal.pre) = seal_offset THEN Extracted(Ok, seal.body[1].po2)
    ELSE Extracted(Ok, StrayWord)

Infos(res, list) == [res |-> res, list |-> list]

\* segments.iter().map(..).collect(): the infos of the segments from i on
\* behind the ones collected so far; the first failure ends the iteration.
RECURSIVE CollectSegmentsInfo(_, _, _, _)
CollectSegmentsInfo(c, segments, i, infos) ==
    IF i > Len(segments) THEN Infos(Ok, infos)
    ELSE IF extract_segment_po2(segments[i].seal, segment_seal_offset(c)).res.tag # "Ok"
    THEN Infos(extract_segment_po2(segments[i].seal, segment_seal_offset(c)).res, <<>>)
    ELSE CollectSegmentsInfo(c, segments, i + 1,
             Append(infos,
                    SegmentInfo(segments[i].hashfn,
                                extract_segment_po2(segments[i].seal,
                                                    segment_seal_offset(c)).po2)))

\* Verifier::extract_composite_segments_info
extract_composite_segments_info(c, composite) ==
    CollectSegmentsInfo(c, composite.segments, 1, <<>>)

\* What a caller may have done to the seal of a segment before asking for
\* the infos: nothing, cut it behind the version prefix, or emptied it.
CutSeal(seal, cut) ==
    CASE cut = "prefix" -> Seal(seal.pre, <<>>)
      [] cut = "empty" -> Seal(<<>>, <<>>)
      [] OTHER -> seal

\* ctx.extract_composite_segments_info(composite), on the composite of the
\* proof with the seal of one segment cut short or left as it is.
CallExtractSegmentsInfo ==
    /\ CanCall /\ IsComposite
    /\ \E i \in 1..Len(proof.inner.segments), cut \in {"none", "prefix", "empty"} :
          call' = [fn |-> "extract_composite_segments_info",
                   composite |-> [proof.inner EXCEPT !.segments[i].seal = CutSeal(@, cut)],
                   ret |-> extract_composite_segments_info(
                              ctx, [proof.inner EXCEPT !.segments[i].seal = CutSeal(@, cut)])]
    /\ Called

\* A u32 as its two 16-bit halves.
U32(hi, lo) == [hi |-> hi, lo |-> lo]

\* a | b on 16-bit values.
RECURSIVE BitOr16(_, _)
BitOr16(a, b) ==
    IF a = 0 THEN b
    ELSE IF b = 0 THEN a
    ELSE (IF a % 2 = 1 \/ b % 2 = 1 THEN 1 ELSE 0) + 2 * BitOr16(a \div 2, b \div 2)

\* a | b on u32 values.
BitOr(a, b) == U32(BitOr16(a.hi, b.hi), BitOr16(a.lo, b.lo))

\* (byte as u32) << k: the bits shifted beyond bit 31 are lost.
Shl32(byte, k) ==
    IF k >= 32 THEN U32(0, 0)
    ELSE IF k >= 16 THEN U32((byte * 2^(k - 16)) % 2^16, 0)
    ELSE U32(((byte * 2^k) \div 2^16) % 2^16, (byte * 2^k) % 2^16)

\* The inner loop of From<[u8; 32]> with the bytes of a chunk taken most
\* significant first.
RECURSIVE WordFromChunk_be(_, _, _)
WordFromChunk_be(chunk, j, single_value) ==
    IF j >= Len(chunk) THEN single_value
    ELSE WordFromChunk_be(chunk, j + 1, BitOr(single_value, Shl32(chunk[j + 1], 8 * (3 - j))))

\* The inner loop of From<[u8; 32]>: single_value |= (byte as u32) << (8 * j)
\* for the bytes of a chunk from the j-th on.
RECURSIVE WordFromChunk(_, _, _)
WordFromChunk(chunk, j, single_value) ==
    IF j >= Len(chunk) THEN single_value
    ELSE WordFromChunk(chunk, j + 1, BitOr(single_value, Shl32(chunk[j + 1], 8 * j)))

\* impl From<[u32; DIGEST_WORDS]> for Vk: the digest of the eight words.
Vk_from_words(value) == [t |-> "words", d |-> <<>>, u |-> value]

\* impl From<[u8; DIGEST_BYTES]> for Vk: chunks_exact(4), one word a chunk.
Vk_from_bytes(value) ==
    Vk_from_words([i \in 1..(Len(value) \div 4) |->
                      WordFromChunk(SubSeq(value, 4 * i - 3, 4 * i), 0, U32(0, 0))])

\* The byte array and the words of the test should_have_same_from_result.
TestVkBytes ==
    << 50, 225, 163, 63, 57, 136, 195, 205, 241, 39, 231, 9, 204, 3, 35, 162,
       88, 178, 141, 247, 80, 183, 162, 213, 221, 196, 197, 227, 127, 0, 125, 153 >>

\* 1067704626, 3452143673, 166143985, 2720203724, 4153258584, 3584210768,
\* 3821389021, 2575106175.
TestVkWords ==
    << U32(16291, 57650),
       U32(52675, 34873),
       U32(2535, 10225),
       U32(41507, 972),
       U32(63373, 45656),
       U32(54690, 46928),
       U32(58309, 50397),
       U32(39293, 127) >>

\* Byte arrays a caller may build a key from: the test's, and every array
\* that holds one value everywhere but at one position.
VkByteArrays ==
    {TestVkBytes}
    \cup {[i \in 1..(4 * DIGEST_WORDS) |-> IF i = p THEN v ELSE bg] :
             p \in 1..(4 * DIGEST_WORDS), v \in {1, 127, 128, 255}, bg \in {0, 255}}

VkWordArrays ==
    {TestVkWords}
    \cup {[i \in 1..DIGEST_WORDS |-> IF i = p THEN v ELSE U32(0, 0)] :
             p \in 1..DIGEST_WORDS,
             v \in {U32(0, 1), U32(0, 256), U32(2^15, 0), U32(2^16 - 1, 2^16 - 1)}}

\* Vk::from(bytes)
CallVkFromBytes ==
    /\ CanCall
    /\ \E bytes \in VkByteArrays :
          call' = [fn |-> "Vk::from_bytes", bytes |-> bytes, ret |-> Vk_from_bytes(bytes)]
    /\ Called

\* Vk::from(words)
CallVkFromWords ==
    /\ CanCall
    /\ \E words \in VkWordArrays :
          call' = [fn |-> "Vk::from_words", words |-> words, ret |-> Vk_from_words(words)]
    /\ Called

\* Segment verifier parameters a caller may configure: none, those of the
\* release, and those with a foreign proof system or circuit info string.
SegmentParamsChoices(c) ==
    {None}
    \cup {Some([SegmentParams(ContextVersion(c)) EXCEPT
                   !.proof_system_info = psi, !.circuit_info = ci]) :
             psi \in {PROOF_SYSTEM_INFO, "STARK_V0"},
             ci \in {SEGMENT_CIRCUIT_INFO(ContextVersion(c)), "RV32IM:other___"}}

\* Contexts of the release of c with these parameters, with or without the
\* hash suites.
SegmentContexts(c) ==
    {[[c EXCEPT !.segment_verifier_parameters = sp] EXCEPT !.suites = hs] :
        sp \in SegmentParamsChoices(c),
        hs \in {default_hash_suites, empty(c.family, c.circuit, c.recursive_circuit).suites}}

\* Seals a segment receipt may carry instead of its own: a tampered one, an
\* empty one, one without its leading words.
SegmentSeals(r) ==
    << r.seal, Seal(<<>>, <<>>), Seal(<<>>, r.seal.body),
       Seal(r.seal.pre, <<[r.seal.body[1] EXCEPT !.sound = FALSE]>>) >>

\* Segment receipts of the one-segment execution of program 1, honest or
\* changed in the seal, the hash function name or the claim.
SegmentReceipts(ver) ==
    {[[[ProveSegment(ver, h, po2, 0, SegmentClaim(ver, 1, 1, 1, <<>>)) EXCEPT
           !.seal = SegmentSeals(ProveSegment(ver, h, po2, 0,
                                              SegmentClaim(ver, 1, 1, 1, <<>>)))[k]]
          EXCEPT !.hashfn = IF named THEN h ELSE "keccak"]
          EXCEPT !.claim.exit_code = e] :
        h \in {"poseidon2", "sha-256"}, po2 \in {HonestPo2, LargePo2},
        k \in 1..4, named \in BOOLEAN, e \in {Halted(0), Halted(1)}}

\* receipt.verify_integrity_with_context(&ctx) on a segment receipt
CallSegmentVerifyIntegrity ==
    /\ CanCall
    /\ \E c \in SegmentContexts(ctx), r \in SegmentReceipts(ContextVersion(ctx)) :
          call' = [fn |-> "SegmentReceipt::verify_integrity_with_context",
                   c |-> c, receipt |-> r,
                   ret |-> SegmentReceipt_verify_integrity_with_context(c, r, <<1>>)]
    /\ Called

\* The succinct receipt of an execution of prog by release ver, rolled up by
\* recursion program j of the program set of release tree on the recursion
\* circuit of release rv: its control root is that set's root.
ProveRooted(ver, prog, j, tree, rv) ==
    SuccinctReceipt(
        Seal(<<>>, <<SealBody(RECURSIVE_CIRCUIT(rv), "poseidon2", RecursionControlId(tree, j),
                              18,
                              PoseidonSlot(ALLOWED_CONTROL_ROOT(tree))
                              \o ShaSlot(ReceiptClaimDigest(ExecutionClaim(ver, prog))),
                              TRUE)>>),
        RecursionControlId(tree, j), Value(ExecutionClaim(ver, prog)), "poseidon2",
        Opaque(VerNum(ver)), ControlInclusionProof(tree, j))

\* Control roots an assumption may name: none, the release's own, another
\* release's.
AssumptionRoots(ver) ==
    {ZERO, ALLOWED_CONTROL_ROOT(ver), ALLOWED_CONTROL_ROOT(OtherRelease(ver))}

\* Receipts a caller may attach for the assumption that program 2 ran:
\* succinct ones under the release's root or another release's, rolled up on
\* the recursion circuit of either release, and a composite one.
AssumptionReceipts(ver) ==
    {ProveRooted(ver, 2, 1, tree, rv) :
        tree \in {ver, OtherRelease(ver)}, rv \in {ver, OtherRelease(ver)}}
    \cup {ProveSuccinct(ver, 2, 1, ALLOWED_CONTROL_ROOT(OtherRelease(ver))),
          ProveComposite(ver, "poseidon2", 2, 1, <<>>, <<>>)}

\* The containing context: the release's, or with an inner control root set.
ContainingContexts(c) ==
    {c, [c EXCEPT !.succinct_verifier_parameters.x.inner_control_root =
            Some(ALLOWED_CONTROL_ROOT(OtherRelease(ContextVersion(c))))]}

\* receipt.verify_integrity_with_context(&ctx) on a composite receipt with
\* one assumption
CallCompositeVerifyIntegrity ==
    /\ CanCall
    /\ \E c \in ContainingContexts(ctx), root \in AssumptionRoots(ContextVersion(ctx)),
          r \in AssumptionReceipts(ContextVersion(ctx)) :
          call' = [fn |-> "CompositeReceipt::verify_integrity_with_context",
                   c |-> c,
                   assumption |-> Assumption(ReceiptClaimDigest(
                                                 ExecutionClaim(ContextVersion(ctx), 2)), root),
                   assumption_receipt |-> r,
                   ret |-> CompositeReceipt_verify_integrity_with_context(c,
                               ProveComposite(ContextVersion(ctx), "poseidon2", 1, 1,
                                   <<Value(Assumption(
                                         ReceiptClaimDigest(
                                             ExecutionClaim(ContextVersion(ctx), 2)), root))>>,
                                   <<r>>),
                               <<>>)]
    /\ Called

\* Assumption lists the output of a last segment may carry.
AssumptionsChoices(ver) ==
    {Value(<<>>), Pruned(ZERO),
     Value(<<Value(Assumption(ReceiptClaimDigest(ExecutionClaim(ver, 2)), ZERO))>>),
     Value(<<Value(Assumption(ReceiptClaimDigest(ExecutionClaim(ver, 2)), ZERO)),
             Pruned(AssumptionDigest(
                        Assumption(ReceiptClaimDigest(ExecutionClaim(ver, 3)),
                                   ALLOWED_CONTROL_ROOT(ver))))>>),
     Pruned(AssumptionsDigest(
                <<Value(Assumption(ReceiptClaimDigest(ExecutionClaim(ver, 3)), ZERO))>>))}

\* Outputs a last segment may report: none, a journal with assumptions, a
\* pruned one.
LastOutputs(ver) ==
    {Value(None), Pruned(OutputDigest(Output(Value(HonestJournal), Value(<<>>))))}
    \cup {Value(Some(Output(jrn, a))) :
             jrn \in {Value(HonestJournal), Pruned(hash_bytes(HonestJournal))},
             a \in AssumptionsChoices(ver)}

\* The composite receipts of program prog in n segments whose last segment
\* reports output.
CompositesWithOutput(ver, n, output) ==
    {[ProveComposite(ver, "poseidon2", prog, n, <<>>, <<>>) EXCEPT
         !.segments[n].claim.output = output] : prog \in {1, 2}}

\* receipt.claim() on a composite receipt
CallCompositeClaim ==
    /\ CanCall
    /\ \E n \in 0..MaxSegments, output \in LastOutputs(ContextVersion(ctx)) :
          \E rc \in IF n = 0
                    THEN {CompositeReceipt(<<>>, <<>>, Opaque(0))}
                    ELSE CompositesWithOutput(ContextVersion(ctx), n, output) :
              call' = [fn |-> "CompositeReceipt::claim", receipt |-> rc,
                       ret |-> CompositeReceipt_claim(rc)]
    /\ Called

\* Lengths of the inputs the sponge is run on: the empty one, partial
\* chunks, whole chunks, whole chunks and a partial one.
SpongeLengths == {0, 1, 6, CELLS_RATE - 1, CELLS_RATE, CELLS_RATE + 1, 20,
                  2 * CELLS_RATE, 2 * CELLS_RATE + 1}

\* Poseidon2Impl::new(mix).unpadded_hash(iter) over n elements, as
\* hash_pair, hash_elem_slice and hash_ext_elem_slice call it
CallUnpaddedHash ==
    /\ CanCall
    /\ \E mix \in {"Loc", "Fake"}, n \in SpongeLengths :
          call' = [fn |-> "Poseidon2Impl::unpadded_hash", mix |-> mix, n |-> n,
                   ret |-> unpadded_hash(Poseidon2Impl_new(mix).mix, n)]
    /\ Called

\* Seals handed to verify_segment: those of SegmentSeals, one with a word
\* that is not the version in front, one with the version word twice.
VerifySegmentSeals(c, r) ==
    {SegmentSeals(r)[k] : k \in 1..4}
    \cup {Seal(<<RV32IM_SEAL_VERSION(c.family) + 1>> \o r.seal.pre, r.seal.body),
          Seal(<<RV32IM_SEAL_VERSION(c.family)>> \o r.seal.pre, r.seal.body)}

\* ctx.verify_segment(hashfn, seal, params)
CallVerifySegment ==
    /\ CanCall
    /\ \E hashfn \in TamperHashNames, po2 \in {HonestPo2, LargePo2} :
          \E seal \in VerifySegmentSeals(ctx,
                          ProveSegment(ContextVersion(ctx),
                                       IF hashfn = "keccak" THEN "poseidon2" ELSE hashfn,
                                       po2, 0,
                                       SegmentClaim(ContextVersion(ctx), 1, 1, 1, <<>>))) :
              call' = [fn |-> "verify_segment", c |-> ctx, hashfn |-> hashfn, seal |-> seal,
                       ret |-> verify_segment(ctx, hashfn, seal,
                                              ctx.segment_verifier_parameters.x, <<1>>)]
    /\ Called

\* Inclusion proofs handed to MerkleProof::verify: those of the recursion
\* programs, the same with an index beyond the four leaves of their tree,
\* and every index with up to MaxDepth siblings.
MerkleProofs(ver) ==
    {[ControlInclusionProof(ver, j) EXCEPT !.index = j + high] : j \in 0..3, high \in {0, 4}}
    \cup {MerkleProof(index, [k \in 1..depth |-> Opaque(k)]) :
             index \in 0..(2^MaxDepth), depth \in 0..MaxDepth}

\* proof.verify(leaf, root, hashfn), which computes proof.root(leaf, hashfn)
CallMerkleVerify ==
    /\ CanCall
    /\ \E mp \in MerkleProofs(ContextVersion(ctx)), j \in 0..3,
          root \in {ALLOWED_CONTROL_ROOT(ContextVersion(ctx)), ZERO,
                    RecursionControlId(ContextVersion(ctx), 0)},
          hashfn \in {Poseidon2Builtin, HashFn("sha-256", "none")} :
          call' = [fn |-> "MerkleProof::verify", proof |-> mp,
                   leaf |-> RecursionControlId(ContextVersion(ctx), j),
                   root |-> root, hashfn |-> hashfn,
                   folded |-> MerkleProof_root(
                                  mp, RecursionControlId(ContextVersion(ctx), j), hashfn),
                   ret |-> MerkleProof_verify(
                               mp, RecursionControlId(ContextVersion(ctx), j), root, hashfn)]
    /\ Called

\* The (hash_name, po2) pairs a resolver may not know: none, one in the
\* middle of a hash name's range, the first of a range, two of one range,
\* and one above the default maximum together with the first of another.
UnknownChoices ==
    {{}, {<<"sha-256", 15>>}, {<<"poseidon2", MIN_CYCLES_PO2>>},
     {<<"blake2b", 14>>, <<"blake2b", 16>>},
     {<<"poseidon2", DEFAULT_MAX_PO2 + 1>>, <<"sha-256", MIN_CYCLES_PO2>>}}

\* The max_po2 a parameter set is built for: below the range, its first po2,
\* inside it, the default, the table's last po2 and far beyond it.
MaxPo2Choices ==
    {MIN_CYCLES_PO2 - 1, MIN_CYCLES_PO2, 16, DEFAULT_MAX_PO2, MAX_CYCLES_PO2,
     MAX_CYCLES_PO2 + 6}

\* SegmentReceiptVerifierParameters::from_max_po2(resolver, max_po2, ..)
CallFromMaxPo2 ==
    /\ CanCall
    /\ \E ver \in {"v1_1", "v1_2"}, unknown \in UnknownChoices, max_po2 \in MaxPo2Choices :
          call' = [fn |-> "from_max_po2", resolver |-> Resolver(ver, unknown),
                   max_po2 |-> max_po2,
                   ret |-> from_max_po2(Resolver(ver, unknown), max_po2, PROOF_SYSTEM_INFO,
                                        SEGMENT_CIRCUIT_INFO(ver))]
    /\ Called

\* Contexts a succinct verifier may be derived from: the release's own, one
\* with an injected Poseidon2 mixer, one with the SHA-256 suite alone.
DerivingContexts(c) ==
    {c, set_poseidon2_mix_impl(c, "Loc"),
     with_suites(c, [n \in {"sha-256"} |-> c.suites[n]])}

\* c.boxed_succinct_verifier_with_control_root(control_root)
CallBoxedSuccinctVerifier ==
    /\ CanCall
    /\ \E c \in DerivingContexts(ctx), root \in AssumptionRoots(ContextVersion(ctx)) :
          call' = [fn |-> "boxed_succinct_verifier_with_control_root",
                   c |-> c, control_root |-> root,
                   ret |-> boxed_succinct_verifier_with_control_root(c, root)]
    /\ Called

\* The composite receipt of program 1 in n segments whose last segment is
\* proven for a claim with the given output, its seal checking out or not.
ProveWithOutput(ver, n, output, sound, assumption_receipts) ==
    [ProveComposite(ver, "poseidon2", 1, n, <<>>, assumption_receipts) EXCEPT
        !.segments[n] =
            [ProveSegment(ver, "poseidon2", HonestPo2, n - 1,
                          [SegmentClaim(ver, 1, n, n, <<>>) EXCEPT !.output = output])
                EXCEPT !.seal.body[1].sound = sound]]

\* receipt.verify_integrity_with_context(&ctx) on a composite receipt whose
\* last segment reports one of the outputs, with no receipt attached or the
\* receipt of program 2
CallVerifyIntegrityWithOutput ==
    /\ CanCall
    /\ \E n \in 1..2, output \in LastOutputs(ContextVersion(ctx)) \cup {Pruned(ZERO)},
          sound \in BOOLEAN,
          receipts \in {<<>>, <<ProveSuccinct(ContextVersion(ctx), 2, 1,
                                              ALLOWED_CONTROL_ROOT(ContextVersion(ctx)))>>} :
          call' = [fn |-> "verify_integrity_with_output",
                   receipt |-> ProveWithOutput(ContextVersion(ctx), n, output, sound, receipts),
                   ret |-> CompositeReceipt_verify_integrity_with_context(ctx,
                               ProveWithOutput(ContextVersion(ctx), n, output, sound, receipts),
                               <<>>)]
    /\ Called

NextCalls ==
    \/ CallDecodeFromSeal
    \/ CallExtractSegmentsInfo
    \/ CallVkFromBytes
    \/ CallVkFromWords
    \/ CallSegmentVerifyIntegrity
    \/ CallCompositeVerifyIntegrity
    \/ CallCompositeClaim
    \/ CallUnpaddedHash
    \/ CallVerifySegment
    \/ CallMerkleVerify
    \/ CallFromMaxPo2
    \/ CallBoxedSuccinctVerifier
    \/ CallVerifyIntegrityWithOutput

Calls == Init /\ [][NextCalls]_vars

(***************************************************************************)
(* Operations on a MaybePruned<Assumptions>, one after the other.          *)
(***************************************************************************)
\* Assumptions a caller adds: two different ones, and the first one pruned.
ListAssumptions ==
    {Value(Assumption(Opaque(1), ZERO)), Value(Assumption(Opaque(2), Opaque(3))),
     Pruned(AssumptionDigest(Assumption(Opaque(1), ZERO)))}

\* Digests a caller names as the resolved assumption.
ResolvedDigests == {MaybePrunedAssumptionDigest(a) : a \in ListAssumptions} \cup {ZERO}

\* Digests a caller names as the digest of the rest of the list: those of
\* the lists a resolve can leave, and one of no list.
TailDigests ==
    {AssumptionsDigest(l) :
        l \in UNION {[1..n -> {Value(Assumption(Opaque(1), ZERO)),
                               Value(Assumption(Opaque(2), Opaque(3)))}] :
                        n \in 0..(MaxListOps - 2)}}
    \cup {Opaque(4)}

CanOperate == pc = "ready" /\ op.n < MaxListOps

Operated == UNCHANGED <<ctx, proof, image_id, journal, pc, result, log, tampers, call>>

\* What the operation before this one was applied to.
Previous ==
    [fn |-> op.fn,
     before |-> IF op.fn = "none" THEN assumptions_list ELSE op.before,
     a |-> IF op.fn = "add" THEN op.a ELSE Pruned(ZERO)]

\* assumptions.add(a)
AssumptionsAdd ==
    /\ CanOperate
    /\ \E a \in ListAssumptions :
          /\ assumptions_list' = MaybePrunedAssumptions_add(assumptions_list, a)
          /\ op' = [fn |-> "add", n |-> op.n + 1, a |-> a, before |-> assumptions_list,
                    prev |-> Previous]
    /\ Operated

\* assumptions.resolve(&resolved, &tail)
AssumptionsResolve ==
    /\ CanOperate
    /\ \E resolved \in ResolvedDigests, tail \in TailDigests :
          /\ assumptions_list' =
                 MaybePrunedAssumptions_resolve(assumptions_list, resolved, tail).list
          /\ op' = [fn |-> "resolve", n |-> op.n + 1, resolved |-> resolved, tail |-> tail,
                    before |-> assumptions_list,
                    res |-> MaybePrunedAssumptions_resolve(assumptions_list, resolved, tail).res,
                    prev |-> Previous]
    /\ Operated

\* MaybePruned::Pruned(assumptions.digest()): the list replaced by its digest.
AssumptionsPrune ==
    /\ pc = "ready"
    /\ assumptions_list.p = "Value"
    /\ assumptions_list' = Pruned(AssumptionsDigest(assumptions_list.v))
    /\ op' = [fn |-> "prune", n |-> op.n, before |-> assumptions_list, prev |-> Previous]
    /\ Operated

\* assumptions.is_empty() and assumptions.digest()
AssumptionsQuery ==
    /\ pc = "ready"
    /\ op' = [fn |-> "is_empty", n |-> op.n, before |-> assumptions_list,
              ret |-> AssumptionsIsEmpty(assumptions_list),
              digest |-> MaybePrunedAssumptionsDigest(assumptions_list),
              prev |-> Previous]
    /\ UNCHANGED assumptions_list
    /\ Operated

NextLists ==
    \/ AssumptionsAdd
    \/ AssumptionsResolve
    \/ AssumptionsPrune
    \/ AssumptionsQuery

Lists == Init /\ [][NextLists]_vars

(***************************************************************************)
(* Properties of Proof::verify                                             *)
(***************************************************************************)
\* The claim the caller expects: ReceiptClaim::ok(image_id, Pruned(journal digest)).
ExpectedClaimDigest(img, jrn) ==
    ReceiptClaimDigest(ReceiptClaim_ok(img, Pruned(Journal_digest(jrn))))

\* The receipt passes its own integrity verification under the context.
IntegrityOk(c, p) == IsOk(verify_integrity_with_context(c, p.inner, <<>>))

\* The receipt has a claim, and this is its digest.
HasClaim(p) == InnerReceipt_claim(p.inner).res.tag = "Ok"

ProofClaimDigest(p) == MaybePrunedReceiptClaimDigest(InnerReceipt_claim(p.inner).claim)

FlippedJournal(jrn, i) == [jrn EXCEPT ![i] = 1 - @]

\* C1: Proof::verify returns Ok only if is_valid_receipt holds, the inner
\* receipt's integrity verification returns Ok, and the digest of
\* ReceiptClaim::ok(image_id, Pruned(journal digest)) equals the digest of the
\* receipt's claim; when the first two hold and the digests differ the result
\* is ClaimDigestMismatch (expected, received); and for a triple that
\* verifies, flipping one bit of the key or of the journal yields
\* ClaimDigestMismatch.
C1_ProofVerify ==
    pc = "done" =>
      /\ result.tag = "Ok" =>
            /\ is_valid_receipt(ctx, proof)
            /\ IntegrityOk(ctx, proof)
            /\ HasClaim(proof)
            /\ ExpectedClaimDigest(image_id, journal) = ProofClaimDigest(proof)
      /\ ( /\ is_valid_receipt(ctx, proof)
           /\ IntegrityOk(ctx, proof)
           /\ HasClaim(proof)
           /\ ExpectedClaimDigest(image_id, journal) # ProofClaimDigest(proof) )
         => result = ClaimDigestMismatch(ExpectedClaimDigest(image_id, journal),
                                         ProofClaimDigest(proof))
      /\ result.tag = "Ok" =>
            /\ \A b \in VkBits :
                  Verifier_verify(ctx, FlipDigestBit(image_id, b), proof, journal).res.tag
                     = "ClaimDigestMismatch"
            /\ \A i \in 1..Len(journal) :
                  Verifier_verify(ctx, image_id, proof, FlippedJournal(journal, i)).res.tag
                     = "ClaimDigestMismatch"

\* A receipt that is valid and passes integrity was verified against a key
\* with one bit flipped, and the verification answered ClaimDigestMismatch.
C1_Witness ==
    /\ pc = "done" /\ tampers = 1
    /\ image_id = FlipDigestBit(ImageId(ContextVersion(ctx), 1), 255)
    /\ is_valid_receipt(ctx, proof) /\ IntegrityOk(ctx, proof)
    /\ result.tag = "ClaimDigestMismatch"
    /\ result.a = ExpectedClaimDigest(image_id, journal)

\* A composite receipt with at least one segment labelled "sha-256".
HasShaSegment(p) ==
    /\ p.inner.kind = "Composite"
    /\ \E i \in 1..Len(p.inner.segments) : p.inner.segments[i].hashfn = "sha-256"

\* C2: under a v2.x or v3.0 context a composite proof with at least one
\* segment whose hashfn is "sha-256" is refused with ReceiptFormatError
\* before integrity verification starts: the STARK engine is invoked for no
\* segment and no assumption receipt is looked at.  Succinct proofs, and
\* composites without such a segment, pass this check: their result is the
\* one of integrity verification and of the comparison of the claims.
C2_ShaRefused ==
    (pc = "done" /\ ctx.family \in {"V2", "V3"}) =>
      /\ HasShaSegment(proof) => (result = Err("ReceiptFormatError") /\ log = <<>>)
      /\ ~HasShaSegment(proof) =>
            /\ is_valid_receipt(ctx, proof)
            /\ result = AfterIntegrity(proof, image_id, Journal_digest(journal),
                            verify_integrity_with_context(ctx, proof.inner, <<>>)).res
            /\ log = verify_integrity_with_context(ctx, proof.inner, <<>>).log

\* A v3.0 context refused a composite of several segments, one of them
\* labelled "sha-256" and the first with a seal that no longer checks out,
\* without running the engine.
C2_Witness ==
    /\ pc = "done" /\ ctx.family = "V3"
    /\ proof.inner.kind = "Composite" /\ Len(proof.inner.segments) > 1
    /\ proof.inner.segments[1].hashfn = "poseidon2"
    /\ ~proof.inner.segments[1].seal.body[1].sound
    /\ proof.inner.segments[2].hashfn = "sha-256"
    /\ result = Err("ReceiptFormatError") /\ log = <<>>

(***************************************************************************)
(* Properties of segment verification                                      *)
(***************************************************************************)
\* The control id the engine reads from a segment seal handed to it by
\* verify_segment.
EngineControlId(c, seal) ==
    IF seal.body # <<>>
       /\ seal.pre = (IF c.family = "V1" THEN <<>> ELSE <<RV32IM_SEAL_VERSION(c.family)>>)
    THEN seal.body[1].cid
    ELSE GarbledControlId

\* The seal of segment i of the proof was submitted to the STARK engine.
Submitted(i) == \E k \in 1..Len(log) : log[k] = Event("stark", <<>>, i)

\* Integrity verification of segment i of the proof, on its own.
SegmentIntegrity(c, p, i) ==
    SegmentReceipt_verify_integrity_with_context(c, p.inner.segments[i],
                                                 Event("stark", <<>>, i))

\* The allow-set decides: a submitted segment whose control id is outside
\* control_ids fails with ControlVerificationError{cid}, one whose control id
\* is inside does not, and no segment with a control id outside passes
\* segment integrity.
AllowSetDecides ==
    \A i \in 1..Len(proof.inner.segments) :
       /\ Submitted(i) =>
             IF EngineControlId(ctx, proof.inner.segments[i].seal)
                   \in ctx.segment_verifier_parameters.x.control_ids
             THEN SegmentIntegrity(ctx, proof, i).res.tag # "ControlVerificationError"
             ELSE /\ result = ControlVerificationError(
                                 EngineControlId(ctx, proof.inner.segments[i].seal))
                  /\ SegmentIntegrity(ctx, proof, i).res = result
       /\ IsOk(SegmentIntegrity(ctx, proof, i)) =>
             EngineControlId(ctx, proof.inner.segments[i].seal)
                \in ctx.segment_verifier_parameters.x.control_ids

\* The callback accepts every control id: no submitted segment fails with
\* ControlVerificationError, whatever control_ids holds.
EveryControlIdAccepted ==
    \A i \in 1..Len(proof.inner.segments) :
       Submitted(i) => SegmentIntegrity(ctx, proof, i).res.tag # "ControlVerificationError"

\* C3 as stated: for every context version the check_code callback of
\* segment verification returns Ok for cid iff cid is in control_ids and
\* ControlVerificationError{cid} otherwise, so no segment with a control id
\* outside the allow-set passes segment integrity.
C3_AllowSetEveryVersion ==
    (pc = "done" /\ IsComposite /\ ctx.segment_verifier_parameters.some) => AllowSetDecides

\* C3, amended: for context versions v1.x the check_code callback of segment
\* verification returns Ok for cid iff cid is in control_ids and
\* ControlVerificationError{cid} otherwise, so under v1.x no segment with a
\* control id outside the allow-set passes segment integrity; for v2.x and
\* v3.0 the callback returns Ok for every control id and control_ids is not
\* consulted.
C3_AllowSetV1 ==
    (pc = "done" /\ IsComposite /\ ctx.segment_verifier_parameters.some) =>
       IF ctx.family = "V1" THEN AllowSetDecides ELSE EveryControlIdAccepted

\* A v1.x context verified a composite whose first segment was proven anew
\* by the context's own release for a cycle count beyond the allow-set, and
\* answered ControlVerificationError with that segment's control id.
C3_Witness ==
    /\ pc = "done" /\ IsComposite /\ ctx.family = "V1"
    /\ Len(proof.inner.segments) > 0
    /\ proof.inner.segments[1].seal.body[1].circuit = ctx.circuit
    /\ proof.inner.segments[1].seal.body[1].sound
    /\ proof.inner.segments[1].seal.body[1].cid
          \notin ctx.segment_verifier_parameters.x.control_ids
    /\ Submitted(1)
    /\ result = ControlVerificationError(proof.inner.segments[1].seal.body[1].cid)

\* The proof with the exit code of the claim field of segment i replaced.
WithExitCode(p, i, e) == [p EXCEPT !.inner.segments[i].claim.exit_code = e]

\* C4: for a composite proof that verifies, replacing the exit code in the
\* claim field of any one segment by a different exit code (seal untouched)
\* makes verify return ClaimDigestMismatch, with the digest of the altered
\* claim as expected and the digest of the claim decoded from the seal as
\* received: the comparison comes before the continuation checks on exit
\* code and output, and the seal of no later segment is submitted.
C4_ExitCodeMismatch ==
    (pc = "done" /\ IsComposite /\ result.tag = "Ok") =>
       \A i \in 1..Len(proof.inner.segments) :
          \A e \in ExitCodes \ {proof.inner.segments[i].claim.exit_code} :
             /\ Verifier_verify(ctx, image_id, WithExitCode(proof, i, e), journal).res
                   = ClaimDigestMismatch(
                        ReceiptClaimDigest(WithExitCode(proof, i, e).inner.segments[i].claim),
                        ReceiptClaimDigest(proof.inner.segments[i].claim))
             /\ Verifier_verify(ctx, image_id, WithExitCode(proof, i, e), journal).log
                   = [k \in 1..i |-> Event("stark", <<>>, k)]

\* A composite of several segments whose first segment's claim was given
\* the exit code Halted(0) in place of SystemSplit was verified, and the
\* answer was ClaimDigestMismatch, after the engine ran on that seal only.
C4_Witness ==
    /\ pc = "done" /\ IsComposite /\ tampers = 1
    /\ Len(proof.inner.segments) > 1
    /\ proof.inner.segments[1].claim.exit_code = Halted(0)
    /\ proof.inner.segments[1].seal.body[1].sound
    /\ result.tag = "ClaimDigestMismatch"
    /\ result.a = ReceiptClaimDigest(proof.inner.segments[1].claim)
    /\ log = <<Event("stark", <<>>, 1)>>

(***************************************************************************)
(* Properties of succinct verification                                     *)
(***************************************************************************)
\* The STARK verification of the succinct receipt of the proof passes.
SuccinctStarkPassed(c, p) ==
    /\ c.succinct_verifier_parameters.some
    /\ IsOk(verify_succinct(c, p.inner.hashfn, p.inner.seal, p.inner.control_inclusion_proof,
                            c.succinct_verifier_parameters.x, Event("stark", <<>>, 0)))

\* The control root and the claim digest a succinct seal commits to: the
\* digests whose words fill the two slots of its output.
CommittedRoot(p) == p.inner.seal.body[1].out[1].dg

CommittedClaimDigest(p) == p.inner.seal.body[1].out[17].dg

WellFormedOutput(p) ==
    p.inner.seal.body[1].out = PoseidonSlot(CommittedRoot(p)) \o ShaSlot(CommittedClaimDigest(p))

\* inner_control_root.unwrap_or(control_root)
ExpectedRoot(c) ==
    IF c.succinct_verifier_parameters.x.inner_control_root.some
    THEN c.succinct_verifier_parameters.x.inner_control_root.x
    ELSE c.succinct_verifier_parameters.x.control_root

WithInnerControlRoot(c, root) ==
    [c EXCEPT !.succinct_verifier_parameters.x.inner_control_root = Some(root)]

\* Roots other than the one a release commits to.
StrangeRoots == {ZERO, Opaque(77)}

\* C5: in succinct integrity verification, after the STARK check passes, the
\* control root decoded from the even-indexed words of the first 16 output
\* elements must equal inner_control_root if it is set and control_root
\* otherwise: if it differs the result is ControlVerificationError (with the
\* decoded root), if it is equal this check raises no error.  Setting the
\* context's inner_control_root to a value different from the root committed
\* in a valid succinct receipt makes verify return ControlVerificationError.
C5_ControlRoot ==
    (pc = "done" /\ IsSuccinct /\ SuccinctStarkPassed(ctx, proof) /\ WellFormedOutput(proof)) =>
       /\ CommittedRoot(proof) # ExpectedRoot(ctx) =>
             result = ControlVerificationError(CommittedRoot(proof))
       /\ CommittedRoot(proof) = ExpectedRoot(ctx) =>
             result.tag \in {"Ok", "JournalDigestMismatch", "ClaimDigestMismatch"}
       /\ result.tag = "Ok" =>
             \A root \in (StrangeRoots \cup {ALLOWED_CONTROL_ROOT(v) : v \in Versions})
                            \ {CommittedRoot(proof)} :
                Verifier_verify(WithInnerControlRoot(ctx, root), image_id, proof, journal).res
                   = ControlVerificationError(CommittedRoot(proof))

\* A context whose inner_control_root was set to the zero digest verified a
\* sound succinct receipt that commits to the release's control root, and
\* answered ControlVerificationError with the committed root.
C5_Witness ==
    /\ pc = "done" /\ IsSuccinct /\ tampers = 1
    /\ SuccinctStarkPassed(ctx, proof)
    /\ ctx.succinct_verifier_parameters.x.inner_control_root = Some(ZERO)
    /\ CommittedRoot(proof) = ALLOWED_CONTROL_ROOT(ContextVersion(ctx))
    /\ result = ControlVerificationError(CommittedRoot(proof))

\* C6: in succinct integrity verification, once the STARK check and the
\* control-root check have passed, the SHA-halfs digest read from the output
\* elements after the first 16 is compared with the digest of the receipt's
\* claim field: a difference yields JournalDigestMismatch, equality yields
\* Ok for integrity.  Replacing the claim of a valid succinct receipt by one
\* with a different digest makes verify return JournalDigestMismatch, not
\* ClaimDigestMismatch; one with the same digest leaves the result Ok.
C6_JournalDigest ==
    (/\ pc = "done" /\ IsSuccinct /\ SuccinctStarkPassed(ctx, proof)
     /\ WellFormedOutput(proof) /\ CommittedRoot(proof) = ExpectedRoot(ctx)) =>
       /\ CommittedClaimDigest(proof) # MaybePrunedReceiptClaimDigest(proof.inner.claim) =>
             result = Err("JournalDigestMismatch")
       /\ CommittedClaimDigest(proof) = MaybePrunedReceiptClaimDigest(proof.inner.claim) =>
             /\ IntegrityOk(ctx, proof)
             /\ result.tag \in {"Ok", "ClaimDigestMismatch"}
       /\ result.tag = "Ok" =>
             \A claim \in SuccinctClaims(ctx, proof.inner.claim) :
                Verifier_verify(ctx, image_id, [proof EXCEPT !.inner.claim = claim],
                                journal).res
                   = IF MaybePrunedReceiptClaimDigest(claim)
                           = MaybePrunedReceiptClaimDigest(proof.inner.claim)
                     THEN Ok ELSE Err("JournalDigestMismatch")

\* A sound succinct receipt whose claim was replaced by the claim of another
\* execution was verified under the release's own control root, and the
\* answer was JournalDigestMismatch.
C6_Witness ==
    /\ pc = "done" /\ IsSuccinct /\ tampers = 1
    /\ SuccinctStarkPassed(ctx, proof)
    /\ CommittedRoot(proof) = ExpectedRoot(ctx)
    /\ proof.inner.claim = Value(ExecutionClaim(ContextVersion(ctx), 2))
    /\ CommittedClaimDigest(proof) = ReceiptClaimDigest(ExecutionClaim(ContextVersion(ctx), 1))
    /\ result = Err("JournalDigestMismatch")

(***************************************************************************)
(* Properties of composite verification                                    *)
(***************************************************************************)
\* Integrity verification of the composite receipt of the proof.
CompositeIntegrity(c, p) == CompositeReceipt_verify_integrity_with_context(c, p.inner, <<>>)

\* Segment i starts in the state segment i - 1 ended in.
Chained(p, i) ==
    MaybePrunedSystemStateDigest(p.inner.segments[i].claim.pre)
       = MaybePrunedSystemStateDigest(p.inner.segments[i - 1].claim.post)

\* Segment i is a segment the execution goes on after.
Continues(p, i) ==
    /\ p.inner.segments[i].claim.exit_code = SystemSplit
    /\ is_none(p.inner.segments[i].claim.output)

\* Every check on the segments before segment i passes.
GoodBefore(c, p, i) ==
    \A j \in 1..(i - 1) :
       /\ IsOk(SegmentIntegrity(c, p, j))
       /\ Continues(p, j)
       /\ IsValue(p.inner.segments[j].claim.post)
       /\ j > 1 => Chained(p, j)

\* C7: integrity verification of a composite receipt with segments
\* S0..S(n-1) returns Ok only if n >= 1 (an empty list gives
\* ReceiptFormatError), every non-final segment has exit code SystemSplit
\* (else UnexpectedExitCode) and an output that is none (else
\* ReceiptFormatError), every segment passes segment integrity, and the
\* pre-state digest of each segment but the first equals the post-state
\* digest of the segment before it (else ImageVerificationError).
C7_Continuation ==
    (pc = "done" /\ IsComposite) =>
       /\ proof.inner.segments = <<>> =>
             /\ CompositeIntegrity(ctx, proof).res = Err("ReceiptFormatError")
             /\ result = Err("ReceiptFormatError")
       /\ IsOk(CompositeIntegrity(ctx, proof)) =>
             /\ Len(proof.inner.segments) >= 1
             /\ \A i \in 1..Len(proof.inner.segments) : IsOk(SegmentIntegrity(ctx, proof, i))
             /\ \A i \in 1..(Len(proof.inner.segments) - 1) : Continues(proof, i)
             /\ \A i \in 2..Len(proof.inner.segments) : Chained(proof, i)
       /\ result.tag = "Ok" => IsOk(CompositeIntegrity(ctx, proof))
       /\ \A i \in 1..Len(proof.inner.segments) :
             (GoodBefore(ctx, proof, i) /\ IsOk(SegmentIntegrity(ctx, proof, i))) =>
                /\ (i > 1 /\ ~Chained(proof, i)) =>
                      CompositeIntegrity(ctx, proof).res = Err("ImageVerificationError")
                /\ ( /\ i > 1 => Chained(proof, i)
                     /\ i < Len(proof.inner.segments)
                     /\ proof.inner.segments[i].claim.exit_code # SystemSplit ) =>
                      CompositeIntegrity(ctx, proof).res = Err("UnexpectedExitCode")
                /\ ( /\ i > 1 => Chained(proof, i)
                     /\ i < Len(proof.inner.segments)
                     /\ proof.inner.segments[i].claim.exit_code = SystemSplit
                     /\ ~is_none(proof.inner.segments[i].claim.output) ) =>
                      CompositeIntegrity(ctx, proof).res = Err("ReceiptFormatError")
       /\ (is_valid_receipt(ctx, proof) /\ ~IsOk(CompositeIntegrity(ctx, proof))) =>
             result = CompositeIntegrity(ctx, proof).res

\* A continuation whose middle segment was dropped was verified: both
\* remaining segments pass segment integrity, the second does not start
\* where the first ended, and the answer was ImageVerificationError.
C7_Witness ==
    /\ pc = "done" /\ IsComposite /\ Len(proof.inner.segments) = 2
    /\ IsOk(SegmentIntegrity(ctx, proof, 1)) /\ IsOk(SegmentIntegrity(ctx, proof, 2))
    /\ Continues(proof, 1)
    /\ ~Chained(proof, 2)
    /\ result = Err("ImageVerificationError")

\* Every check on the segments of the proof passes.
SegmentsPass(c, p) ==
    /\ Len(p.inner.segments) >= 1
    /\ GoodBefore(c, p, Len(p.inner.segments))
    /\ IsOk(SegmentIntegrity(c, p, Len(p.inner.segments)))
    /\ Len(p.inner.segments) > 1 => Chained(p, Len(p.inner.segments))

\* The assumptions listed in the output of the last segment.
Assumed(p) == CompositeReceipt_assumptions(p.inner).list

\* Integrity verification of assumption receipt k, on its own, under the
\* context of assumption k.
AssumptionReceiptIntegrity(c, p, k) ==
    verify_integrity_with_context(
        AssumptionContext(c, assumption_context(c, Assumed(p)[k])),
        p.inner.assumption_receipts[k], <<k>>)

\* Receipt k resolves assumption k.
Resolved(c, p, k) ==
    /\ IsOk(AssumptionReceiptIntegrity(c, p, k))
    /\ claim_digest(p.inner.assumption_receipts[k]).res.tag = "Ok"
    /\ claim_digest(p.inner.assumption_receipts[k]).dg = Assumed(p)[k].claim

\* The verification of assumption receipt k began.
AssumptionVerified(k) == \E n \in 1..Len(log) : log[n] = Event("assumption", <<k>>, 0)

\* C8: in composite integrity verification the number of assumptions in the
\* last segment's output must equal the number of assumption receipts,
\* otherwise the result is ReceiptFormatError and no assumption receipt is
\* verified; when the counts match, assumption k is paired with receipt k,
\* the receipt must pass integrity verification (else its error is the
\* result) and its claim digest must equal assumption.claim, otherwise the
\* result is ClaimDigestMismatch with expected = assumption.claim.
C8_Assumptions ==
    ( /\ pc = "done" /\ IsComposite /\ is_valid_receipt(ctx, proof)
      /\ SegmentsPass(ctx, proof)
      /\ CompositeReceipt_assumptions(proof.inner).res.tag = "Ok" ) =>
       IF Len(Assumed(proof)) # Len(proof.inner.assumption_receipts)
       THEN /\ result = Err("ReceiptFormatError")
            /\ \A n \in 1..Len(log) : log[n].ev = "stark" /\ log[n].path = <<>>
       ELSE /\ result.tag = "Ok" => \A k \in 1..Len(Assumed(proof)) : Resolved(ctx, proof, k)
            /\ (\A k \in 1..Len(Assumed(proof)) : Resolved(ctx, proof, k)) =>
                  IsOk(CompositeIntegrity(ctx, proof))
            /\ \A k \in 1..Len(Assumed(proof)) :
                  (\A j \in 1..(k - 1) : Resolved(ctx, proof, j)) =>
                     /\ AssumptionVerified(k)
                     /\ ~IsOk(AssumptionReceiptIntegrity(ctx, proof, k)) =>
                           result = AssumptionReceiptIntegrity(ctx, proof, k).res
                     /\ ( /\ IsOk(AssumptionReceiptIntegrity(ctx, proof, k))
                          /\ claim_digest(proof.inner.assumption_receipts[k]).res.tag = "Ok"
                          /\ claim_digest(proof.inner.assumption_receipts[k]).dg
                                # Assumed(proof)[k].claim ) =>
                           result = ClaimDigestMismatch(
                                       Assumed(proof)[k].claim,
                                       claim_digest(proof.inner.assumption_receipts[k]).dg)

\* A composite with two assumptions whose two receipts were handed over in
\* reverse order was verified: the first receipt passes integrity
\* verification but proves another claim, and the answer was
\* ClaimDigestMismatch with the first assumption's claim as expected.
C8_Witness ==
    /\ pc = "done" /\ IsComposite /\ SegmentsPass(ctx, proof)
    /\ Len(Assumed(proof)) = 2 /\ Len(proof.inner.assumption_receipts) = 2
    /\ IsOk(AssumptionReceiptIntegrity(ctx, proof, 1))
    /\ claim_digest(proof.inner.assumption_receipts[1]).dg = Assumed(proof)[2].claim
    /\ result.tag = "ClaimDigestMismatch"
    /\ result.a = Assumed(proof)[1].claim
    /\ result.b = Assumed(proof)[2].claim

\* One of the checks composite verification makes on segment i fails.
SegmentFails(c, p, i) ==
    \/ ~IsOk(SegmentIntegrity(c, p, i))
    \/ i > 1 /\ ~Chained(p, i)
    \/ i < Len(p.inner.segments)
          /\ (~Continues(p, i) \/ ~IsValue(p.inner.segments[i].claim.post))

\* The error the failing checks on segment i raise.
RaisedBy(c, p, i) ==
    IF ~IsOk(SegmentIntegrity(c, p, i)) THEN SegmentIntegrity(c, p, i).res
    ELSE IF i > 1 /\ ~Chained(p, i) THEN Err("ImageVerificationError")
    ELSE IF p.inner.segments[i].claim.exit_code # SystemSplit THEN Err("UnexpectedExitCode")
    ELSE Err("ReceiptFormatError")

\* Entry n of the log is an engine call on a segment of the proof itself.
OnSegment(n) == log[n].ev = "stark" /\ log[n].path = <<>>

\* C9: composite verification processes segments strictly in list order and
\* assumption receipts in list order only after every segment has passed:
\* the error returned is the one raised by the lowest-index failing segment,
\* the seal of segment j is never submitted to the STARK engine when some
\* segment i < j failed, no assumption receipt is verified when any segment
\* check failed, and assumption receipt k is not verified when an assumption
\* receipt with a lower index failed.
C9_Ordering ==
    (pc = "done" /\ IsComposite /\ is_valid_receipt(ctx, proof)) =>
       /\ \A m \in 1..Len(log) : \A n \in (m + 1)..Len(log) :
             /\ (OnSegment(m) /\ OnSegment(n)) => log[m].idx < log[n].idx
             /\ ~OnSegment(m) => (~OnSegment(n) /\ log[m].path[1] <= log[n].path[1])
       /\ \A i \in 1..Len(proof.inner.segments) :
             (SegmentFails(ctx, proof, i)
                 /\ \A j \in 1..(i - 1) : ~SegmentFails(ctx, proof, j)) =>
                /\ result = RaisedBy(ctx, proof, i)
                /\ \A j \in 1..(i - 1) : Submitted(j)
                /\ \A j \in (i + 1)..Len(proof.inner.segments) : ~Submitted(j)
                /\ \A n \in 1..Len(log) : OnSegment(n)
       /\ ( /\ SegmentsPass(ctx, proof)
            /\ CompositeReceipt_assumptions(proof.inner).res.tag = "Ok"
            /\ Len(Assumed(proof)) = Len(proof.inner.assumption_receipts) ) =>
             /\ \A i \in 1..Len(proof.inner.segments) : Submitted(i)
             /\ \A k \in 1..Len(Assumed(proof)) :
                   ~Resolved(ctx, proof, k) =>
                      \A j \in (k + 1)..Len(Assumed(proof)) : ~AssumptionVerified(j)
             /\ \A k \in 1..Len(Assumed(proof)) :
                   (\A j \in 1..(k - 1) : Resolved(ctx, proof, j)) => AssumptionVerified(k)

\* A continuation of three segments was verified after the seals of its
\* first and of its last segment were tampered with: the answer is the first
\* segment's InvalidProof and the engine ran on the first seal only.
C9_Witness ==
    /\ pc = "done" /\ IsComposite /\ Len(proof.inner.segments) = 3
    /\ is_valid_receipt(ctx, proof)
    /\ ~proof.inner.segments[1].seal.body[1].sound
    /\ ~proof.inner.segments[3].seal.body[1].sound
    /\ result = Err("InvalidProof")
    /\ log = <<Event("stark", <<>>, 1)>>

(***************************************************************************)
(* Properties of the context                                               *)
(***************************************************************************)
\* What a call of set_poseidon2_mix_impl leaves as it was.
Poseidon2MixFrame ==
    /\ DOMAIN ctx'.suites = DOMAIN ctx.suites
    /\ \A n \in DOMAIN ctx.suites \ {"poseidon2"} : ctx'.suites[n] = ctx.suites[n]
    /\ "poseidon2" \in DOMAIN ctx.suites =>
          /\ ctx'.suites["poseidon2"].name = ctx.suites["poseidon2"].name
          /\ ctx'.suites["poseidon2"].rng = ctx.suites["poseidon2"].rng
          /\ \E mix \in Mixers : ctx'.suites["poseidon2"].hashfn = Poseidon2Impl_new(mix)
    /\ "poseidon2" \notin DOMAIN ctx.suites => ctx' = ctx
    /\ ctx'.segment_verifier_parameters = ctx.segment_verifier_parameters
    /\ ctx'.succinct_verifier_parameters = ctx.succinct_verifier_parameters
    /\ ctx'.circuit = ctx.circuit
    /\ ctx'.recursive_circuit = ctx.recursive_circuit
    /\ ctx'.family = ctx.family

\* C10: set_poseidon2_mix_impl changes only the hashfn of the suites entry
\* named "poseidon2": that entry's name and rng, every other suite entry, the
\* segment and succinct verifier parameters and the circuit descriptors are
\* unchanged; if the suites map has no "poseidon2" entry, no entry is added
\* and the context is left unchanged.
C10_Poseidon2MixFrame == [][SetPoseidon2MixImpl => Poseidon2MixFrame]_vars

\* A context built for a release had the mixer "Fake" injected: its
\* "poseidon2" suite hashes with the injected mixer, and putting the
\* built-in hash function back gives the context as it was built.
C10_Witness ==
    /\ "poseidon2" \in DOMAIN ctx.suites
    /\ ctx.suites["poseidon2"].hashfn = Poseidon2Impl_new("Fake")
    /\ ctx # NewContext(ContextVersion(ctx))
    /\ [ctx EXCEPT !.suites["poseidon2"].hashfn =
            NewContext(ContextVersion(ctx)).suites["poseidon2"].hashfn]
          = NewContext(ContextVersion(ctx))

(***************************************************************************)
(* Properties of the seal decoders                                         *)
(***************************************************************************)
\* C11: for every seal, of any length and contents, and every context
\* version, decoding the claim from the seal ends with a decoded claim or
\* with ReceiptFormatError: it never panics and reports no other error for a
\* seal it cannot parse.
C11_DecodeTotal ==
    call.fn = "decode_from_seal" =>
       /\ call.ret.res.tag \in {"Ok", "ReceiptFormatError"}
       /\ call.ret.res.tag = "Ok" <=> call.ret.claim # NoClaim

\* The seal has fewer words than seal_offset + OUTPUT_SIZE + 1.
ShortSeal(seal) == seal.body = <<>>

\* C12: extract_composite_segments_info on a composite with n segments
\* returns exactly n SegmentInfo in segment order, entry i carrying segment
\* i's hashfn and the raw value of the element at position OUTPUT_SIZE behind
\* the version prefix of segment i's seal; if a segment's seal has fewer than
\* seal_offset + OUTPUT_SIZE + 1 words the call returns ReceiptFormatError
\* instead of panicking.
C12_SegmentsInfo ==
    call.fn = "extract_composite_segments_info" =>
       IF \E i \in 1..Len(call.composite.segments) : ShortSeal(call.composite.segments[i].seal)
       THEN call.ret.res = Err("ReceiptFormatError")
       ELSE /\ call.ret.res = Ok
            /\ Len(call.ret.list) = Len(call.composite.segments)
            /\ \A i \in 1..Len(call.composite.segments) :
                  call.ret.list[i]
                     = SegmentInfo(call.composite.segments[i].hashfn,
                                   call.composite.segments[i].seal.body[1].po2)

\* The part of C12 about seals that are long enough.
C12_LongSeals ==
    (call.fn = "extract_composite_segments_info"
        /\ \A i \in 1..Len(call.composite.segments) :
              ~ShortSeal(call.composite.segments[i].seal)) =>
       /\ call.ret.res = Ok
       /\ Len(call.ret.list) = Len(call.composite.segments)
       /\ \A i \in 1..Len(call.composite.segments) :
             call.ret.list[i] = SegmentInfo(call.composite.segments[i].hashfn,
                                            call.composite.segments[i].seal.body[1].po2)

(***************************************************************************)
(* Properties of the verification key                                      *)
(***************************************************************************)
\* The little-endian word of four bytes, by arithmetic.
LeWord(b, i) == U32(b[4 * i - 1] + 2^8 * b[4 * i], b[4 * i - 3] + 2^8 * b[4 * i - 2])

\* Byte k (0 the least significant) of a u32.
ByteOf(w, k) ==
    CASE k = 0 -> w.lo % 2^8
      [] k = 1 -> w.lo \div 2^8
      [] k = 2 -> w.hi % 2^8
      [] OTHER -> w.hi \div 2^8

\* u32::to_le_bytes of each word, one after the other.
LeBytes(w) == [n \in 1..(4 * Len(w)) |-> ByteOf(w[(n + 3) \div 4], (n - 1) % 4)]

\* C13: for every 32-byte array b the Vk built from b equals the Vk built
\* from the eight words w[i] = b[4i] + 2^8 b[4i+1] + 2^16 b[4i+2] + 2^24 b[4i+3];
\* conversely the word form and its little-endian byte expansion give the
\* same digest; no byte of b is dropped or shifted out of range.
C13_VkBytesWords ==
    /\ call.fn = "Vk::from_bytes" =>
          /\ call.ret = Vk_from_words([i \in 1..DIGEST_WORDS |-> LeWord(call.bytes, i)])
          /\ Len(call.ret.u) = DIGEST_WORDS
          /\ \A i \in 1..DIGEST_WORDS :
                call.ret.u[i].hi \in 0..(2^16 - 1) /\ call.ret.u[i].lo \in 0..(2^16 - 1)
          /\ LeBytes(call.ret.u) = call.bytes
    /\ call.fn = "Vk::from_words" =>
          /\ Vk_from_bytes(LeBytes(call.words)) = call.ret
          /\ call.ret.u = call.words

\* The key was built from the byte array of the test, and it is the key of
\* the test's eight words.
C13_Witness ==
    /\ call.fn = "Vk::from_bytes"
    /\ call.bytes = TestVkBytes
    /\ call.ret = Vk_from_words(TestVkWords)

(***************************************************************************)
(* Properties of SegmentReceipt::verify_integrity_with_context             *)
(***************************************************************************)
SegmentCall == call.fn = "SegmentReceipt::verify_integrity_with_context"

ParamsMissing == ~call.c.segment_verifier_parameters.some

ProofSystemDiffers ==
    call.c.segment_verifier_parameters.x.proof_system_info # PROOF_SYSTEM_INFO

CircuitDiffers ==
    call.c.segment_verifier_parameters.x.circuit_info
        # SEGMENT_CIRCUIT_INFO(ContextVersion(call.c))

SuiteMissing == call.receipt.hashfn \notin DOMAIN call.c.suites

\* One of the checks made before the STARK engine fails.
EarlyFailure ==
    ParamsMissing \/ ProofSystemDiffers \/ CircuitDiffers \/ SuiteMissing

EngineRan == call.ret.log # <<>>

\* The seal holds a proof whose control id is one of the parameters'.
SealControlIdAllowed ==
    /\ call.receipt.seal.body # <<>>
    /\ call.receipt.seal.body[1].cid
           \in call.c.segment_verifier_parameters.x.control_ids

\* C14: segment integrity verification returns the error of the first
\* failing check in the order: parameters absent (VerifierParametersMissing),
\* proof_system_info differs (ProofSystemInfoMismatch), circuit_info differs
\* (CircuitInfoMismatch), no suite registered under hashfn
\* (InvalidHashSuite), the STARK engine's error unchanged (InvalidProof for
\* a tampered seal), digest of the decoded claim differs from the claim
\* field's (ClaimDigestMismatch); Ok only when all pass; the engine is not
\* run when an earlier check fails.
C14_SegmentCheckOrder ==
    SegmentCall =>
        /\ ParamsMissing => call.ret.res = Err("VerifierParametersMissing")
        /\ ~ParamsMissing /\ ProofSystemDiffers =>
              call.ret.res = Err("ProofSystemInfoMismatch")
        /\ ~ParamsMissing /\ ~ProofSystemDiffers /\ CircuitDiffers =>
              call.ret.res = Err("CircuitInfoMismatch")
        /\ ~ParamsMissing /\ ~ProofSystemDiffers /\ ~CircuitDiffers /\ SuiteMissing =>
              call.ret.res = Err("InvalidHashSuite")
        /\ EarlyFailure => ~EngineRan
        /\ EngineRan /\ call.receipt.seal.body = <<>> =>
              call.ret.res = Err("ReceiptFormatError")
        /\ EngineRan /\ SealControlIdAllowed /\ ~call.receipt.seal.body[1].sound =>
              call.ret.res = Err("InvalidProof")
        /\ EngineRan /\ call.c.family = "V1" /\ call.receipt.seal.body # <<>>
               /\ ~SealControlIdAllowed =>
              call.ret.res = ControlVerificationError(call.receipt.seal.body[1].cid)
        /\ EngineRan /\ call.ret.res.tag \in {"Ok", "ClaimDigestMismatch"} =>
              /\ call.receipt.seal.body[1].sound
              /\ decode_from_seal(call.c, call.receipt.seal).res.tag = "Ok"
              /\ call.ret.res =
                    IF ReceiptClaimDigest(decode_from_seal(call.c, call.receipt.seal).claim)
                           = ReceiptClaimDigest(call.receipt.claim)
                    THEN Ok
                    ELSE ClaimDigestMismatch(
                             ReceiptClaimDigest(call.receipt.claim),
                             ReceiptClaimDigest(
                                 decode_from_seal(call.c, call.receipt.seal).claim))
        /\ call.ret.res.tag = "Ok" => ~EarlyFailure /\ EngineRan

\* Both info strings differ and the receipt names no suite: the first check
\* in the order decided.
C14_Witness ==
    /\ SegmentCall
    /\ ~ParamsMissing /\ ProofSystemDiffers /\ CircuitDiffers /\ SuiteMissing
    /\ call.ret = Ret(Err("ProofSystemInfoMismatch"), <<>>)

(***************************************************************************)
(* Properties of the post states of a composite receipt                    *)
(***************************************************************************)
\* This step replaces the post state of segment i by its digest and leaves
\* everything else as it is, on a receipt that passed its integrity
\* verification.
PostPrunedOnSound(i) ==
    /\ IsComposite
    /\ i \in 1..Len(proof.inner.segments)
    /\ IsValue(proof.inner.segments[i].claim.post)
    /\ IntegrityOk(ctx, proof)
    /\ ctx' = ctx
    /\ proof' = [proof EXCEPT !.inner.segments[i].claim.post =
                    Pruned(MaybePrunedSystemStateDigest(proof.inner.segments[i].claim.post))]

\* The result of the integrity verification after this step.
IntegrityAfter == verify_integrity_with_context(ctx', proof'.inner, <<>>).res

\* C15: composite integrity verification returns ReceiptFormatError when the
\* post state of the last segment's claim is Pruned rather than a Value,
\* for composites of any length, all other checks passing.
C15_LastPostPruned ==
    [][PostPrunedOnSound(Len(proof.inner.segments))
          => IntegrityAfter = Err("ReceiptFormatError")]_vars

\* C15, amended: composite integrity verification returns ReceiptFormatError
\* when the post state of the claim of a segment other than the last is
\* Pruned rather than a Value, all other checks passing; the post state of
\* the last segment is not read, and pruning it leaves the verification Ok.
C15_InnerPostPruned ==
    [][\A i \in 1..MaxSegments :
          PostPrunedOnSound(i) =>
              IntegrityAfter = IF i < Len(proof.inner.segments)
                               THEN Err("ReceiptFormatError") ELSE Ok]_vars

\* Only the post state of the first of several segments was pruned, and the
\* verification ended in ReceiptFormatError.
C15_Witness ==
    /\ IsComposite /\ Len(proof.inner.segments) >= 2
    /\ tampers = 1
    /\ ~IsValue(proof.inner.segments[1].claim.post)
    /\ pc = "done"
    /\ result = Err("ReceiptFormatError")

(***************************************************************************)
(* Properties of the contexts assumptions are verified under               *)
(***************************************************************************)
CompositeCall == call.fn = "CompositeReceipt::verify_integrity_with_context"

\* A context without segment verifier parameters whose succinct parameters
\* name the assumption's control root and no inner control root.
SuccinctOnlyContext ==
    [boxed_succinct_verifier_with_control_root(call.c, call.assumption.control_root) EXCEPT
        !.segment_verifier_parameters = None,
        !.succinct_verifier_parameters =
            Some([control_root |-> call.assumption.control_root,
                  inner_control_root |-> None,
                  proof_system_info |-> PROOF_SYSTEM_INFO,
                  circuit_info |-> "RECURSION:rev1v1"])]

\* C16: while the assumptions of a composite receipt are verified, the
\* receipt of an assumption with control_root = ZERO is verified under the
\* context of the containing receipt, and the receipt of an assumption with
\* control_root # ZERO under a fresh context without segment verifier
\* parameters whose succinct parameters are {control_root: the assumption's,
\* inner_control_root: None}; under it a receipt that needs segment
\* verification fails with VerifierParametersMissing.
C16_AssumptionContexts ==
    CompositeCall =>
        /\ call.assumption.control_root = ZERO =>
              call.ret.res =
                  verify_integrity_with_context(call.c, call.assumption_receipt, <<1>>).res
        /\ call.assumption.control_root # ZERO =>
              call.ret.res =
                  verify_integrity_with_context(SuccinctOnlyContext,
                                                call.assumption_receipt, <<1>>).res
        /\ call.assumption.control_root # ZERO
               /\ call.assumption_receipt.kind = "Composite" =>
              call.ret.res = Err("VerifierParametersMissing")

\* The assumption names a control root of its own and its receipt is a
\* composite one: the verification ended in VerifierParametersMissing.
C16_Witness ==
    /\ CompositeCall
    /\ call.assumption.control_root # ZERO
    /\ call.assumption_receipt.kind = "Composite"
    /\ call.ret.res = Err("VerifierParametersMissing")

(***************************************************************************)
(* Properties of CompositeReceipt::claim                                   *)
(***************************************************************************)
ClaimCall == call.fn = "CompositeReceipt::claim"

FirstClaim == call.receipt.segments[1].claim

LastClaim == call.receipt.segments[Len(call.receipt.segments)].claim

\* The receipt of the call with the assumptions of its last output replaced.
WithAssumptions(a) ==
    [call.receipt EXCEPT
        !.segments[Len(call.receipt.segments)].claim.output.v.x.assumptions = a]

\* C17: CompositeReceipt::claim returns pre and input of the first segment,
\* post and exit_code of the last, and the last segment's output with the
\* journal kept and the assumptions replaced by the empty list (None stays
\* None); the digest of this claim does not depend on the assumptions listed
\* in the last segment and equals the digest of the same claim with
\* assumptions = Pruned(ZERO).
C17_CompositeClaim ==
    ClaimCall =>
        /\ call.ret.res.tag = "Ok"
              <=> call.receipt.segments # <<>> /\ LastClaim.output.p = "Value"
        /\ call.ret.res.tag = "Ok" =>
              /\ call.ret.claim.pre = FirstClaim.pre
              /\ call.ret.claim.input = FirstClaim.input
              /\ call.ret.claim.post = LastClaim.post
              /\ call.ret.claim.exit_code = LastClaim.exit_code
              /\ call.ret.claim.output.p = "Value"
              /\ call.ret.claim.output.v.some = LastClaim.output.v.some
        /\ call.ret.res.tag = "Ok" /\ LastClaim.output.v.some =>
              /\ call.ret.claim.output.v.x.journal = LastClaim.output.v.x.journal
              /\ call.ret.claim.output.v.x.assumptions = Value(<<>>)
              /\ \A a \in AssumptionsChoices(ContextVersion(ctx)) :
                    ReceiptClaimDigest(CompositeReceipt_claim(WithAssumptions(a)).claim)
                        = ReceiptClaimDigest(call.ret.claim)
              /\ ReceiptClaimDigest(
                     [call.ret.claim EXCEPT !.output.v.x.assumptions = Pruned(ZERO)])
                     = ReceiptClaimDigest(call.ret.claim)

\* The claim of a receipt of two segments whose last output lists an
\* assumption was computed.
C17_Witness ==
    /\ ClaimCall
    /\ Len(call.receipt.segments) = 2
    /\ LastClaim.output.p = "Value" /\ LastClaim.output.v.some
    /\ LastClaim.output.v.x.assumptions.p = "Value"
    /\ LastClaim.output.v.x.assumptions.v # <<>>
    /\ call.ret.res.tag = "Ok"
    /\ call.ret.claim.output.v.x.assumptions = Value(<<>>)

(***************************************************************************)
(* Properties of the injected Poseidon2 sponge                             *)
(***************************************************************************)
\* max(1, ceil(n / CELLS_RATE))
MixCount(n) == IF n = 0 THEN 1 ELSE (n + CELLS_RATE - 1) \div CELLS_RATE

\* C18: for an input of n field elements the injected Poseidon2 adapter
\* applies the caller-supplied poseidon2_mix exactly
\* max(1, ceil(n / CELLS_RATE)) times, once after each full chunk, once
\* after a zero-padded final partial chunk and once for an empty input, and
\* applies no permutation other than the supplied one.
C18_InjectedMixOnly ==
    call.fn = "Poseidon2Impl::unpadded_hash" =>
        call.ret = [i \in 1..MixCount(call.n) |-> MixNum(call.mix)]

\* The number of permutations applied is the one stated, whoever computes
\* them.
C18_MixCount ==
    call.fn = "Poseidon2Impl::unpadded_hash" => Len(call.ret) = MixCount(call.n)

(***************************************************************************)
(* Properties of the seal version prefix                                   *)
(***************************************************************************)
\* verify_segment was called with a hash function name that has a suite.
VerifySegmentCall == call.fn = "verify_segment" /\ call.hashfn \in DOMAIN call.c.suites

\* The seal starts with RV32IM_SEAL_VERSION.
HasVersionPrefix ==
    /\ call.seal.pre # <<>>
    /\ call.seal.pre[1] = RV32IM_SEAL_VERSION(call.c.family)

\* The result of the STARK engine on seal, and the trace of its call.
EngineOn(seal, cb) ==
    Ret(StarkVerify(call.c.circuit, call.c.suites[call.hashfn], seal, cb), <<<<1>>>>)

\* C19: for v2/v3 contexts segment verification of a seal whose first word
\* is not RV32IM_SEAL_VERSION, a seal without a first word included, returns
\* ReceiptFormatError and does not run the STARK engine; with the prefix the
\* engine receives the seal without exactly that one word.  For v1 contexts
\* the engine receives the seal unchanged.
C19_SealPrefix ==
    VerifySegmentCall =>
        /\ call.c.family # "V1" /\ ~HasVersionPrefix =>
              call.ret = Ret(Err("ReceiptFormatError"), <<>>)
        /\ call.c.family # "V1" /\ HasVersionPrefix =>
              call.ret = EngineOn(Seal(Tail(call.seal.pre), call.seal.body), AcceptAllCheck)
        /\ call.c.family = "V1" =>
              call.ret = EngineOn(call.seal,
                                  AllowSetCheck(call.c.segment_verifier_parameters.x))

\* The same for the seals that have a first word.
C19_NonEmptySeals ==
    VerifySegmentCall /\ (call.seal.pre # <<>> \/ call.seal.body # <<>>) =>
        /\ call.c.family # "V1" /\ ~HasVersionPrefix =>
              call.ret = Ret(Err("ReceiptFormatError"), <<>>)
        /\ call.c.family # "V1" /\ HasVersionPrefix =>
              call.ret = EngineOn(Seal(Tail(call.seal.pre), call.seal.body), AcceptAllCheck)
        /\ call.c.family = "V1" =>
              call.ret = EngineOn(call.seal,
                                  AllowSetCheck(call.c.segment_verifier_parameters.x))

(***************************************************************************)
(* Properties of MerkleProof                                               *)
(***************************************************************************)
MerkleCall == call.fn = "MerkleProof::verify"

\* Bit k of the index, bit 0 the lowest.
IndexBit(k) == (call.proof.index \div 2^k) % 2

\* The running digest after the first k siblings.
RECURSIVE RunningDigest(_)
RunningDigest(k) ==
    IF k = 0 THEN call.leaf
    ELSE IF IndexBit(k - 1) = 0
    THEN hash_pair(call.hashfn, RunningDigest(k - 1), call.proof.digests[k])
    ELSE hash_pair(call.hashfn, call.proof.digests[k], RunningDigest(k - 1))

\* C20: MerkleProof::root(leaf) folds the sibling list from leaf to root, at
\* step k the running digest becoming hash_pair(cur, digests[k]) if bit k of
\* index is 0 and hash_pair(digests[k], cur) otherwise; MerkleProof::verify
\* succeeds if and only if the folded value equals the expected root, with
\* the hash_pair of the suite chosen.
C20_MerkleFold ==
    MerkleCall =>
        /\ call.folded = RunningDigest(Len(call.proof.digests))
        /\ call.ret <=> RunningDigest(Len(call.proof.digests)) = call.root

\* The inclusion proof of the recursion program at index 2, whose path goes
\* left and then right, verified against the control root.
C20_Witness ==
    /\ MerkleCall
    /\ call.proof.index = 2 /\ Len(call.proof.digests) = 2
    /\ call.ret
    /\ call.root # ZERO

(***************************************************************************)
(* Properties of the assumptions list                                      *)
(***************************************************************************)
\* The digest of the list before the last operation.
DigestBefore == MaybePrunedAssumptionsDigest(op.before)

\* C21: add(a) inserts a at the head and keeps the order of the other
\* entries; resolve(digest, tail) succeeds only if the list is non-empty, the
\* digest of its head equals digest and the digest of the list without its
\* head equals tail, and on success removes exactly the head; both for a
\* list held as a Value and for one held as a Pruned digest.
C21_AddResolve ==
    /\ op.fn = "add" =>
          /\ assumptions_list.p = op.before.p
          /\ MaybePrunedAssumptionsDigest(assumptions_list)
                 = tagged_list_cons("risc0.Assumptions",
                                    MaybePrunedAssumptionDigest(op.a), DigestBefore)
          /\ assumptions_list.p = "Value" =>
                /\ Len(assumptions_list.v) = Len(op.before.v) + 1
                /\ assumptions_list.v[1] = op.a
                /\ \A i \in 1..Len(op.before.v) :
                      assumptions_list.v[i + 1] = op.before.v[i]
    /\ op.fn = "resolve" /\ op.res = "Ok" =>
          /\ DigestBefore # ZERO
          /\ DigestBefore = tagged_list_cons("risc0.Assumptions", op.resolved, op.tail)
          /\ assumptions_list.p = op.before.p
          /\ MaybePrunedAssumptionsDigest(assumptions_list) = op.tail
          /\ assumptions_list.p = "Value" =>
                /\ op.before.v # <<>>
                /\ MaybePrunedAssumptionDigest(op.before.v[1]) = op.resolved
                /\ assumptions_list.v = Tail(op.before.v)

\* The same without the comparison of the rest of a Value list with tail.
C21_AddResolveHead ==
    /\ op.fn = "add" =>
          /\ assumptions_list.p = op.before.p
          /\ MaybePrunedAssumptionsDigest(assumptions_list)
                 = tagged_list_cons("risc0.Assumptions",
                                    MaybePrunedAssumptionDigest(op.a), DigestBefore)
    /\ op.fn = "resolve" /\ op.res = "Ok" =>
          /\ DigestBefore # ZERO
          /\ assumptions_list.p = op.before.p
          /\ assumptions_list.p = "Pruned" =>
                /\ DigestBefore = tagged_list_cons("risc0.Assumptions", op.resolved, op.tail)
                /\ assumptions_list.dg = op.tail
          /\ assumptions_list.p = "Value" =>
                /\ op.before.v # <<>>
                /\ MaybePrunedAssumptionDigest(op.before.v[1]) = op.resolved
                /\ assumptions_list.v = Tail(op.before.v)

\* C22: the empty assumptions list digests to ZERO; is_empty is true exactly
\* for Value(empty list) and Pruned(ZERO), false for every non-empty Value
\* and every Pruned(d) with d # ZERO; so Value(x) and Pruned(digest(x)) agree
\* on is_empty and on digest.
C22_EmptyList ==
    op.fn = "is_empty" =>
        /\ op.before = [p |-> "Value", v |-> <<>>] => op.ret /\ op.digest = ZERO
        /\ op.before = [p |-> "Pruned", dg |-> ZERO] => op.ret /\ op.digest = ZERO
        /\ op.before.p = "Value" /\ op.before.v # <<>> => ~op.ret /\ op.digest # ZERO
        /\ op.before.p = "Pruned" /\ op.before.dg # ZERO => ~op.ret
        /\ op.before.p = "Pruned" => op.digest = op.before.dg
        /\ op.prev.fn = "prune" =>
              /\ op.before = [p |-> "Pruned", dg |-> AssumptionsDigest(op.prev.before.v)]
              /\ op.ret = AssumptionsIsEmpty(op.prev.before)
              /\ op.digest = AssumptionsDigest(op.prev.before.v)

\* A list of two assumptions was replaced by its digest and then asked
\* whether it is empty.
C22_Witness ==
    /\ op.fn = "is_empty" /\ op.prev.fn = "prune"
    /\ Len(op.prev.before.v) = 2
    /\ ~op.ret

(***************************************************************************)
(* Properties of the v2 and v3 claim translation                           *)
(***************************************************************************)
\* A v2 or v3 context decoded a seal into a claim.
TranslatedCall == call.fn = "decode_from_seal" /\ ctx.family # "V1" /\ call.ret.res.tag = "Ok"

\* The Rv32imV2Claim the decoded seal carries.
SealClaim == call.seal.body[1].out

\* C23: the v2 and v3 contexts translate the decoded Rv32imV2Claim so that an
\* absent terminate state gives SystemSplit with the decoded post state kept,
\* halt type TERMINATE gives Halted(user_exit) with the post state
\* SystemState{pc: 0, merkle_root: ZERO}, halt type PAUSE gives
\* Paused(user_exit) with the decoded post state kept; pre and post are
\* Values with pc 0, input and output are Pruned digests, an absent output
\* being the zero digest.
C23_ClaimTranslation ==
    TranslatedCall =>
       /\ ~SealClaim.terminate_state.some =>
             /\ call.ret.claim.exit_code = SystemSplit
             /\ call.ret.claim.post = Value(SystemState(0, SealClaim.post_state))
       /\ SealClaim.terminate_state.some =>
             /\ SealClaim.terminate_state.x.halt_type = halt_TERMINATE =>
                   /\ call.ret.claim.exit_code = Halted(SealClaim.terminate_state.x.user_exit)
                   /\ call.ret.claim.post = Value(SystemState(0, ZERO))
             /\ SealClaim.terminate_state.x.halt_type = halt_PAUSE =>
                   /\ call.ret.claim.exit_code = Paused(SealClaim.terminate_state.x.user_exit)
                   /\ call.ret.claim.post = Value(SystemState(0, SealClaim.post_state))
             /\ SealClaim.terminate_state.x.halt_type \in {halt_TERMINATE, halt_PAUSE}
       /\ call.ret.claim.pre = Value(SystemState(0, SealClaim.pre_state))
       /\ call.ret.claim.input = Pruned(SealClaim.input)
       /\ call.ret.claim.output =
             Pruned(IF SealClaim.output.some THEN SealClaim.output.x ELSE ZERO)

\* A seal whose circuit output reports TERMINATE with a non-zero user exit
\* and a non-zero post state was translated.
C23_Witness ==
    /\ TranslatedCall
    /\ SealClaim.terminate_state.some
    /\ SealClaim.terminate_state.x.halt_type = halt_TERMINATE
    /\ SealClaim.terminate_state.x.user_exit # 0
    /\ SealClaim.post_state # ZERO

(***************************************************************************)
(* Properties of the control id allow-set                                  *)
(***************************************************************************)
\* The resolver knows every po2 of hash_name from MIN_CYCLES_PO2 up to po2.
KnownUpTo(hash_name, po2) ==
    \A q \in MIN_CYCLES_PO2..po2 : Resolve(call.resolver, hash_name, q).some

\* C24: the allow-set built from a resolver and max_po2 is exactly the set of
\* resolver(h, p) for h in "poseidon2", "sha-256", "blake2b" and
\* MIN_CYCLES_PO2 <= p <= max_po2 such that the resolver knows every q in
\* MIN_CYCLES_PO2..p: the iteration stops at the first unknown po2 of each
\* hash name, and no id of a po2 above max_po2 is in the set.
C24_ControlIdSet ==
    call.fn = "from_max_po2" =>
       /\ call.ret.control_ids =
             {Resolve(call.resolver, hp[1], hp[2]).x :
                 hp \in {x \in {"poseidon2", "sha-256", "blake2b"}
                                 \X (MIN_CYCLES_PO2..call.max_po2) : KnownUpTo(x[1], x[2])}}
       /\ \A h \in {"poseidon2", "sha-256", "blake2b"},
             p \in (call.max_po2 + 1)..(MAX_CYCLES_PO2 + 1) :
             Resolve(call.resolver, h, p).some =>
                Resolve(call.resolver, h, p).x \notin call.ret.control_ids

\* A resolver that does not know a po2 in the middle of a range was asked
\* for a maximum beyond it, and knows a po2 between the two.
C24_Witness ==
    /\ call.fn = "from_max_po2"
    /\ \E h \in {"poseidon2", "sha-256", "blake2b"},
          q \in (MIN_CYCLES_PO2 + 1)..call.max_po2 :
          /\ ~Resolve(call.resolver, h, q).some
          /\ q < call.max_po2
          /\ Resolve(call.resolver, h, q + 1).some
          /\ Resolve(call.resolver, h, q - 1).x \in call.ret.control_ids

(***************************************************************************)
(* Properties of the fields the verification never reads                   *)
(***************************************************************************)
\* The receipt with every field the verification never reads overwritten:
\* the index and verifier_parameters of each segment, the verifier_parameters
\* of the receipt, the control_id of a succinct receipt, in the assumption
\* receipts too.
RECURSIVE ResetUnread(_)
ResetUnread(r) ==
    IF r.kind = "Succinct"
    THEN [r EXCEPT !.control_id = ZERO, !.verifier_parameters = ZERO]
    ELSE [r EXCEPT !.verifier_parameters = ZERO,
                   !.segments = [i \in 1..Len(@) |->
                                    [@[i] EXCEPT !.index = 0, !.verifier_parameters = ZERO]],
                   !.assumption_receipts = [k \in 1..Len(@) |-> ResetUnread(@[k])]]

\* C25: the outcome of verify is the same for proofs that differ only in
\* SegmentReceipt.index, in the verifier_parameters digest of a segment,
\* succinct or composite receipt, or in SuccinctReceipt.control_id; and
\* VerifierParametersMismatch is never the outcome.
C25_UnreadFields ==
    pc = "done" =>
       /\ result = Verifier_verify(ctx, image_id, Proof(ResetUnread(proof.inner)), journal).res
       /\ result.tag # "VerifierParametersMismatch"

\* A proof that differs from a prover's only in fields never read was
\* verified and accepted.
C25_Witness ==
    /\ pc = "done" /\ result.tag = "Ok"
    /\ proof \notin HonestProofs(ContextVersion(ctx))
    /\ \E h \in HonestProofs(ContextVersion(ctx)) :
          ResetUnread(h.inner) = ResetUnread(proof.inner)

(***************************************************************************)
(* Properties of the refusal of "sha-256" segments at any depth            *)
(***************************************************************************)
\* The receipt is a composite with a segment labelled "sha-256", among its
\* own segments or in a receipt attached for an assumption.
RECURSIVE ContainsShaSegment(_)
ContainsShaSegment(r) ==
    /\ r.kind = "Composite"
    /\ \/ \E i \in 1..Len(r.segments) : r.segments[i].hashfn = "sha-256"
       \/ \E k \in 1..Len(r.assumption_receipts) :
             ContainsShaSegment(r.assumption_receipts[k])

\* The STARK engine ran on a segment labelled "sha-256" of the proof or of
\* one of its assumption receipts.
EngineRanOnShaSegment ==
    \E n \in 1..Len(log) :
       /\ log[n].ev = "stark" /\ log[n].idx > 0
       /\ \/ /\ log[n].path = <<>>
             /\ proof.inner.segments[log[n].idx].hashfn = "sha-256"
          \/ /\ Len(log[n].path) = 1
             /\ proof.inner.assumption_receipts[log[n].path[1]]
                    .segments[log[n].idx].hashfn = "sha-256"

\* C26: under a v2 or v3 context, verify returns ReceiptFormatError, the
\* STARK engine not having run on the offending segment, for every proof
\* that contains a composite receipt with a segment labelled "sha-256" at any
\* depth, at the top level or nested in assumption_receipts.
C26_ShaRefusedAtAnyDepth ==
    (pc = "done" /\ ctx.family \in {"V2", "V3"} /\ ContainsShaSegment(proof.inner)) =>
       /\ result = Err("ReceiptFormatError")
       /\ ~EngineRanOnShaSegment

(***************************************************************************)
(* Properties of the derived succinct verifier                             *)
(***************************************************************************)
DerivedCall == call.fn = "boxed_succinct_verifier_with_control_root"

\* The derived context has the hash suites of the deriving one, no segment
\* parameters, and succinct parameters for the given control root.
C27_DerivedParameters ==
    DerivedCall =>
       /\ call.ret.family = call.c.family
       /\ call.ret.suites = call.c.suites
       /\ call.ret.segment_verifier_parameters = None
       /\ call.ret.succinct_verifier_parameters =
             Some(SuccinctReceiptVerifierParameters(call.control_root, None, PROOF_SYSTEM_INFO,
                                                    succinct_circuit_info(call.c)))

\* C27: for the context of every version constructor, the context
\* boxed_succinct_verifier_with_control_root(r) returns carries the same
\* hash-suite map, an injected mixer included, and the same segment and
\* recursive circuit descriptors as the context it was derived from; only the
\* verifier parameters differ.
C27_DerivedContext ==
    DerivedCall =>
       /\ call.ret.suites = call.c.suites
       /\ call.ret.circuit = call.c.circuit
       /\ call.ret.recursive_circuit = call.c.recursive_circuit

(***************************************************************************)
(* Properties of a failed resolve and of add followed by resolve           *)
(***************************************************************************)
\* The last two operations were add(a) and resolve(digest(a), d0), d0 being
\* the digest of the list before the add.
AddThenResolve ==
    /\ op.fn = "resolve" /\ op.prev.fn = "add"
    /\ op.resolved = MaybePrunedAssumptionDigest(op.prev.a)
    /\ op.tail = MaybePrunedAssumptionsDigest(op.prev.before)

\* C28: for a list held as a Value and for one held as a Pruned digest, a
\* resolve that fails leaves the assumptions exactly as they were; and
\* add(a) immediately followed by resolve(digest(a), d0), d0 being the list
\* digest before the add, succeeds and restores the value or pruned digest
\* that held before the add.
C28_ResolveRestores ==
    /\ (op.fn = "resolve" /\ op.res # "Ok") => assumptions_list = op.before
    /\ AddThenResolve => (op.res = "Ok" /\ assumptions_list = op.prev.before)

\* An assumption was added to a pruned, non-empty list and resolved again.
C28_Witness ==
    /\ AddThenResolve
    /\ op.prev.before.p = "Pruned" /\ op.prev.before.dg # ZERO
    /\ assumptions_list = op.prev.before

(***************************************************************************)
(* Properties of the index of a Merkle proof                               *)
(***************************************************************************)
\* The proof of the call with another index.
Reindexed(index) == [call.proof EXCEPT !.index = index]

\* C29: MerkleProof::root depends only on the low len(digests) bits of the
\* index: a proof with the same digests and an index that agrees on those
\* bits computes the same root for the leaf, the index never being checked
\* against the length of the path; and a proof with no digests verifies if and
\* only if the leaf equals the expected root, whatever its index.
C29_IndexLowBits ==
    MerkleCall =>
       /\ \A index \in 0..(2 * 2^MaxDepth) :
             index % 2^Len(call.proof.digests) = call.proof.index % 2^Len(call.proof.digests)
                => MerkleProof_root(Reindexed(index), call.leaf, call.hashfn) = call.folded
       /\ call.proof.digests = <<>> => (call.ret <=> call.leaf = call.root)

\* An inclusion proof whose index lies beyond the leaves of its path's tree
\* verified against the control root.
C29_Witness ==
    /\ MerkleCall /\ call.ret
    /\ call.proof.digests # <<>>
    /\ call.proof.index >= 2^Len(call.proof.digests)

(***************************************************************************)
(* Properties of the assumptions read from the last segment's output       *)
(***************************************************************************)
OutputCall == call.fn = "verify_integrity_with_output"

\* Every segment of the receipt of the call passes its integrity and
\* chaining checks.
CallSegmentsPass == SegmentsPass(ctx, Proof(call.receipt))

\* The output the last segment's claim reports.
LastOutput == call.receipt.segments[Len(call.receipt.segments)].claim.output

\* The output is a value and carries assumptions.
HasAssumptionsField == LastOutput.p = "Value" /\ LastOutput.v.some

\* The output reports no assumption: there is no output, or the assumptions
\* field is the empty list or the zero digest.
NoAssumption ==
    \/ LastOutput = Value(None)
    \/ /\ HasAssumptionsField
       /\ LastOutput.v.x.assumptions \in {Value(<<>>), Pruned(ZERO)}

\* C30: when every segment of a composite receipt passes its integrity and
\* chaining checks, verification returns ReceiptFormatError if the output of
\* the last segment's claim is Pruned, be it Pruned(ZERO), or the output's
\* assumptions field is Pruned with a non-zero digest, or the assumptions
\* list is not empty and has a Pruned entry; an output of Value(None) or an
\* assumptions field that is empty gives the empty assumption list, which
\* needs assumption_receipts to be empty.
C30_PrunedAssumptions ==
    (OutputCall /\ CallSegmentsPass) =>
       /\ LastOutput.p = "Pruned" => call.ret.res = Err("ReceiptFormatError")
       /\ (/\ HasAssumptionsField
           /\ LastOutput.v.x.assumptions.p = "Pruned"
           /\ LastOutput.v.x.assumptions.dg # ZERO) => call.ret.res = Err("ReceiptFormatError")
       /\ (/\ HasAssumptionsField
           /\ LastOutput.v.x.assumptions.p = "Value"
           /\ \E k \in 1..Len(LastOutput.v.x.assumptions.v) :
                 LastOutput.v.x.assumptions.v[k].p = "Pruned")
             => call.ret.res = Err("ReceiptFormatError")
       /\ NoAssumption =>
             /\ call.receipt.assumption_receipts = <<>> => call.ret.res = Ok
             /\ call.receipt.assumption_receipts # <<>>
                   => call.ret.res = Err("ReceiptFormatError")

\* A receipt whose segments all pass and whose last output is Pruned(ZERO)
\* was refused.
C30_Witness ==
    /\ OutputCall /\ CallSegmentsPass
    /\ Len(call.receipt.segments) = 2
    /\ LastOutput = Pruned(ZERO)
    /\ call.ret.res = Err("ReceiptFormatError")

====
